---- MODULE Spec2Model ----
(***************************************************************************)
(* Kerning comparison engine of kern-compare: the KerningComparison         *)
(* component's state (fonts, tolerance, dictionary, comparison result),     *)
(* the compare handler, the tolerance reclassification effect and the       *)
(* dictionary filter and analytics they call.                               *)
(*                                                                          *)
(* Representation.  A JavaScript string is a sequence of one-character      *)
(* strings, so that split(',') and template concatenation are computed.     *)
(* A nullable value is a sequence of length 0 (null / undefined) or 1.      *)
(* A Record<string, number> is a function whose DOMAIN is its key set; its  *)
(* enumeration order is the insertion order of the extractor's double loop. *)
(***************************************************************************)
EXTENDS Integers, Sequences, FiniteSets, TLC

\* ------------------------------------------------------------------ bounds
\* number of font files the user has at hand (the first NumFonts of FontLibrary)
NumFonts == 3

\* positions of the tolerance slider that are explored (the slider has 0..100)
ToleranceChoices == {4, 5, 30}

\* texts the user types into the Custom Characters textarea
CustomTexts == { << >>, << "A", "V" >>, << "1" >> }

\* largest number of entries of a mapping handed to the dictionary filter
MaxPairs == 2

\* kerning values of the entries of such a mapping
KerningValues == { -50, 20 }

\* ----------------------------------------------------------- nullable values
None == << >>
Some(v) == << v >>
IsNone(o) == o = << >>
IsSome(o) == o # << >>
Val(o) == o[1]

\* ------------------------------------------------------------------ strings
\* the text of the value a destructuring pattern binds when the array is too
\* short
Undefined == << "u", "n", "d", "e", "f", "i", "n", "e", "d" >>

RECURSIVE SplitAcc(_, _, _, _)
SplitAcc(s, sep, parts, cur) ==
  IF s = << >> THEN Append(parts, cur)
  ELSE IF Head(s) = sep
       THEN SplitAcc(Tail(s), sep, Append(parts, cur), << >>)
       ELSE SplitAcc(Tail(s), sep, parts, Append(cur, Head(s)))

\* String.prototype.split with a one-character separator
Split(s, sep) == SplitAcc(s, sep, << >>, << >>)

\* const [left, right] = pairKey.split(',')
SplitLeft(pairKey) ==
  LET parts == Split(pairKey, ",") IN parts[1]

SplitRight(pairKey) ==
  LET parts == Split(pairKey, ",") IN
  IF Len(parts) >= 2 THEN parts[2] ELSE Undefined

\* collation rank of a character under localeCompare: punctuation sorts
\* before digits, digits before letters
CollationRank(c) ==
  CASE c = "," -> 1
    [] c = "1" -> 2
    [] c = "A" -> 3
    [] c = "o" -> 4
    [] c = "T" -> 5
    [] c = "V" -> 6
    [] OTHER   -> 7

RECURSIVE localeCompare(_, _)
localeCompare(a, b) ==
  IF a = << >> /\ b = << >> THEN 0
  ELSE IF a = << >> THEN -1
  ELSE IF b = << >> THEN 1
  ELSE IF CollationRank(Head(a)) < CollationRank(Head(b)) THEN -1
  ELSE IF CollationRank(Head(a)) > CollationRank(Head(b)) THEN 1
  ELSE localeCompare(Tail(a), Tail(b))

Abs(n) == IF n < 0 THEN -n ELSE n

\* Array.prototype.sort: stable, so with a consistent comparator each element
\* comes after the elements that compare below it and after the earlier
\* elements that compare equal to it
StableSort(seq, Cmp(_, _)) ==
  LET n == Len(seq)
      Before(j, i) ==
        \/ Cmp(seq[j], seq[i]) < 0
        \/ Cmp(seq[j], seq[i]) = 0 /\ j < i
      placed == { << 1 + Cardinality({ j \in 1..n : Before(j, i) }), i >> : i \in 1..n }
  IN  [ p \in 1..n |-> seq[(CHOOSE at \in placed : at[1] = p)[2]] ]

\* ------------------------------------------------------------- dictionaries
DICTIONARY_OPTIONS ==
  [ id \in { "latin-normal", "latin-concise", "latin-expansive",
             "latin-punctuation", "numbers", "all-pairs", "custom" } |->
    CASE id = "latin-normal"      -> "Latin Normal"
      [] id = "latin-concise"     -> "Latin Concise"
      [] id = "latin-expansive"   -> "Latin Expansive"
      [] id = "latin-punctuation" -> "Latin + Punctuation"
      [] id = "numbers"           -> "Numbers"
      [] id = "all-pairs"         -> "All Kerning Pairs"
      [] id = "custom"            -> "Custom" ]

latinUppercase ==
  { "A", "B", "C", "D", "E", "F", "G", "H", "I", "J", "K", "L", "M",
    "N", "O", "P", "Q", "R", "S", "T", "U", "V", "W", "X", "Y", "Z" }

latinLowercase ==
  { "a", "b", "c", "d", "e", "f", "g", "h", "i", "j", "k", "l", "m",
    "n", "o", "p", "q", "r", "s", "t", "u", "v", "w", "x", "y", "z" }

numbers == { "0", "1", "2", "3", "4", "5", "6", "7", "8", "9" }

basicPunctuation ==
  { ".", ",", ";", ":", "!", "?", "\"", "'", "(", ")", "[", "]", "{", "}",
    "<", ">", "/", "-", "_" }

\* the backslash and the backquote, which a string literal here cannot hold,
\* are named
Backslash == "BACKSLASH"

Backquote == "BACKQUOTE"

extendedPunctuation ==
  basicPunctuation \cup { "@", "#", "$", "%", "^", "&", "*", "+", "=", Backslash,
                          "|", "~", Backquote }

\* the character set of each dictionary profile as the module text gives it,
\* as new Set(characters.split('')) builds it; the accented and typographic
\* characters of the profiles are written as the ASCII part of the set (no font
\* of the model carries them)
ProfileSets ==
  [ id \in { "latin-concise", "latin-normal", "latin-expansive",
             "latin-punctuation", "numbers", "custom", "all-pairs" } |->
    CASE id = "latin-concise" ->
           latinUppercase \cup latinLowercase \cup numbers \cup basicPunctuation
      [] id = "latin-normal" ->
           latinUppercase \cup latinLowercase \cup numbers \cup basicPunctuation
      [] id = "latin-expansive" ->
           latinUppercase \cup latinLowercase \cup numbers \cup extendedPunctuation
      [] id = "latin-punctuation" ->
           latinUppercase \cup latinLowercase \cup extendedPunctuation
      [] id = "numbers" ->
           numbers \cup { ".", ",", "-", "%", "$" }
      [] id = "custom" -> { }
      [] id = "all-pairs" -> { } ]

\* the characters fields of the module's table, which are plain writable
\* properties of module-level objects:
\*   customCharacters    DICTIONARIES.custom.characters, a string
\*   profileCharacters   the characters of every other entry, as sets
VARIABLES customCharacters, profileCharacters

\* new Set(text.split(''))
CharSet(text) == { text[i] : i \in 1..Len(text) }

\* the table as it stands: each profile's current character set
DICTIONARIES ==
  [ id \in DOMAIN ProfileSets |->
    IF id = "custom" THEN CharSet(customCharacters) ELSE profileCharacters[id] ]

\* the table as the module text gives it, before any write
InitDictionaries ==
  profileCharacters = [ id \in DOMAIN ProfileSets \ { "custom" } |-> ProfileSets[id] ]

\* names every object literal answers to through Object.prototype; the value
\* found under such a name is truthy and has no characters field
ObjectPrototypeKeys ==
  { "constructor", "toString", "valueOf", "hasOwnProperty", "isPrototypeOf",
    "propertyIsEnumerable", "toLocaleString", "__proto__" }

\* DICTIONARIES[dictionaryId] is truthy
Truthy(dictionaryId) ==
  dictionaryId \in DOMAIN DICTIONARIES \/ dictionaryId \in ObjectPrototypeKeys

\* the value getDictionary returns has a characters string
HasCharacters(dictionaryId) ==
  dictionaryId \in DOMAIN DICTIONARIES \/ ~Truthy(dictionaryId)

\* the characters of DICTIONARIES[dictionaryId] || DICTIONARIES['latin-normal'],
\* as a set (asked only where HasCharacters holds)
getDictionary(dictionaryId) ==
  IF dictionaryId \in DOMAIN DICTIONARIES
  THEN DICTIONARIES[dictionaryId]
  ELSE DICTIONARIES["latin-normal"]

\* Set.prototype.has on a set of one-character strings
Has(charSet, s) == Len(s) = 1 /\ s[1] \in charSet

\* faulty variant: no early return, an empty character set filters
filterWithoutEarlyReturn(kerningPairs, dictionaryId) ==
  LET charSet == getDictionary(dictionaryId)
      kept == { pairKey \in DOMAIN kerningPairs :
                  /\ Has(charSet, SplitLeft(pairKey))
                  /\ Has(charSet, SplitRight(pairKey)) }
  IN  [ pairKey \in kept |-> kerningPairs[pairKey] ]

\* faulty variant: the entry that sorts first is lost on every pass
filterLosingAnEntry(kerningPairs, dictionaryId) ==
  IF dictionaryId = "all-pairs" \/ dictionaryId = "custom" THEN kerningPairs
  ELSE LET charSet == getDictionary(dictionaryId) IN
       IF charSet = { } THEN kerningPairs
       ELSE LET kept == { pairKey \in DOMAIN kerningPairs :
                            /\ Has(charSet, SplitLeft(pairKey))
                            /\ Has(charSet, SplitRight(pairKey))
                            /\ \E other \in DOMAIN kerningPairs :
                                 localeCompare(other, pairKey) < 0 }
            IN  [ pairKey \in kept |-> kerningPairs[pairKey] ]

filterPairsByDictionary(kerningPairs, dictionaryId) ==
  IF dictionaryId = "all-pairs" \/ dictionaryId = "custom" THEN kerningPairs
  ELSE LET charSet == getDictionary(dictionaryId) IN
       IF charSet = { } THEN kerningPairs
       ELSE LET kept == { pairKey \in DOMAIN kerningPairs :
                            /\ Has(charSet, SplitLeft(pairKey))
                            /\ Has(charSet, SplitRight(pairKey)) }
            IN  [ pairKey \in kept |-> kerningPairs[pairKey] ]

\* how a call ends: with a returned value or with a thrown error
Returned(v) == [ type |-> "return", value |-> v, error |-> "" ]

Thrown(name) == [ type |-> "throw", value |-> << >>, error |-> name ]

\* a call of filterPairsByDictionary as its caller sees it: the read of
\* dictionary.characters.split throws a TypeError when the value getDictionary
\* returned has no characters string
filterPairsByDictionaryCall(kerningPairs, dictionaryId) ==
  IF dictionaryId # "all-pairs" /\ dictionaryId # "custom"
     /\ ~HasCharacters(dictionaryId)
  THEN Thrown("TypeError")
  ELSE Returned(filterPairsByDictionary(kerningPairs, dictionaryId))

\* ------------------------------------------------------------ kerning maps
\* the candidate characters of the extractor that the model fonts kern (three
\* capitals, a small letter, a digit and the comma), in the order of the
\* extractor's character string
characters == << "A", "T", "V", "o", "1", "," >>

\* the keys in the order the extractor's double loop inserts them
ExtractionOrder ==
  LET n == Len(characters) IN
  [ k \in 1..(n * n) |->
      << characters[((k - 1) \div n) + 1], ",", characters[((k - 1) % n) + 1] >> ]

\* Object.keys: the keys of a mapping in insertion order
ObjectKeys(kerningPairs) ==
  SelectSeq(ExtractionOrder, LAMBDA k : k \in DOMAIN kerningPairs)

Range(seq) == { seq[i] : i \in 1..Len(seq) }

\* the key the extractor writes for a pair: `${leftChar},${rightChar}`
PairKey(leftChar, rightChar) == << leftChar, ",", rightChar >>

EmptyMapping == [ k \in { } |-> 0 ]

\* the kerning mappings of the font files at hand, as extraction returns them
\* (non-zero values on ordered pairs of candidate characters)
FontLibrary ==
  << EmptyMapping,
     (PairKey("A", "V") :> -50) @@ (PairKey("V", "A") :> -50)
       @@ (PairKey("1", "1") :> -30),
     (PairKey("A", "V") :> -45) @@ (PairKey("V", "A") :> -20)
       @@ (PairKey("V", "1") :> -45),
     (PairKey("1", "1") :> -10) @@ (PairKey("1", "V") :> -45),
     (PairKey("A", "V") :> -50) @@ (PairKey("1", "A") :> -30) >>

FontFiles == { FontLibrary[i] : i \in 1..NumFonts }

\* ---------------------------------------------------------------- extractor
\* A parsed font as the extractor sees it: whether each of the two lookups is
\* a function, the characters whose charToGlyph call throws, the ordered pairs
\* whose getKerningValue call throws, the kerning table (getKerningValue
\* answers 0 off the table) and unitsPerEm.
PlainFont ==
  [ hasCharToGlyph |-> TRUE, hasGetKerningValue |-> TRUE, throwingChars |-> { },
    throwingPairs |-> { }, kern |-> EmptyMapping, unitsPerEm |-> 1000 ]

\* font.getKerningValue(font.charToGlyph(leftChar), font.charToGlyph(rightChar))
getKerningValue(f, leftChar, rightChar) ==
  IF PairKey(leftChar, rightChar) \in DOMAIN f.kern
  THEN f.kern[PairKey(leftChar, rightChar)]
  ELSE 0

\* the try block throws for this candidate pair
LookupThrows(f, leftChar, rightChar) ==
  \/ leftChar \in f.throwingChars
  \/ rightChar \in f.throwingChars
  \/ << leftChar, rightChar >> \in f.throwingPairs

\* faulty variant: the zero test forgotten
extractStepStoringZero(f, kerningPairs, leftChar, rightChar) ==
  IF LookupThrows(f, leftChar, rightChar) THEN kerningPairs
  ELSE (PairKey(leftChar, rightChar) :> getKerningValue(f, leftChar, rightChar))
         @@ kerningPairs

\* faulty variant: a throwing lookup empties what was recorded so far
extractStepAborting(f, kerningPairs, leftChar, rightChar) ==
  IF LookupThrows(f, leftChar, rightChar) THEN EmptyMapping
  ELSE IF getKerningValue(f, leftChar, rightChar) # 0
       THEN (PairKey(leftChar, rightChar) :> getKerningValue(f, leftChar, rightChar))
              @@ kerningPairs
       ELSE kerningPairs

\* one pass of the inner loop body: the try block and its catch
extractStep(f, kerningPairs, leftChar, rightChar) ==
  IF LookupThrows(f, leftChar, rightChar) THEN kerningPairs
  ELSE IF getKerningValue(f, leftChar, rightChar) # 0
       THEN (PairKey(leftChar, rightChar) :> getKerningValue(f, leftChar, rightChar))
              @@ kerningPairs
       ELSE kerningPairs

extractKerningPairs(f) ==
  IF ~f.hasGetKerningValue \/ ~f.hasCharToGlyph THEN EmptyMapping
  ELSE LET n == Len(characters)
           loop[k \in 0..(n * n)] ==
             IF k = 0 THEN EmptyMapping
             ELSE extractStep(f, loop[k - 1],
                              characters[((k - 1) \div n) + 1],
                              characters[((k - 1) % n) + 1])
       IN  loop[n * n]

\* the extractor's character string in full; characters above is the part
\* of it that the model fonts kern
allCharacters ==
  << "A", "B", "C", "D", "E", "F", "G", "H", "I", "J", "K", "L", "M",
     "N", "O", "P", "Q", "R", "S", "T", "U", "V", "W", "X", "Y", "Z",
     "a", "b", "c", "d", "e", "f", "g", "h", "i", "j", "k", "l", "m",
     "n", "o", "p", "q", "r", "s", "t", "u", "v", "w", "x", "y", "z",
     "0", "1", "2", "3", "4", "5", "6", "7", "8", "9",
     ".", ",", ";", ":", "!", "?", "\"", "'", "(", ")", "[", "]", "{", "}",
     "<", ">", "/", "-", "_" >>

\* one pass of the outer loop over the string in full: the inner loop for
\* one left character. Each pass of the inner loop leaves kerningPairs as it
\* is or writes one key, so the row is the keys written, each with the value
\* of its last write, over what was there before
extractRow(f, kerningPairs, leftChar) ==
  LET n == Len(allCharacters)
      written == [ j \in 1..n |->
                    extractStep(f, EmptyMapping, leftChar, allCharacters[j]) ]
      keys == UNION { DOMAIN written[j] : j \in 1..n }
      last(k) == CHOOSE j \in 1..n :
                   /\ k \in DOMAIN written[j]
                   /\ \A later \in (j + 1)..n : k \notin DOMAIN written[later]
  IN  [ k \in keys \cup DOMAIN kerningPairs |->
          IF k \in keys THEN written[last(k)][k] ELSE kerningPairs[k] ]

\* Math.round(percent / 100 * unitsPerEm)
RoundPercent(percent, unitsPerEm) ==
  (2 * percent * unitsPerEm + 100) \div 200

\* generateSyntheticKerning: commonPairs, in hundredths, scaled to font units
generateSyntheticKerning(f) ==
  LET commonPairs ==
        (PairKey("A", "V") :> -7) @@ (PairKey("A", "W") :> -6)
        @@ (PairKey("A", "Y") :> -8) @@ (PairKey("F", "a") :> -3)
        @@ (PairKey("L", "T") :> -8) @@ (PairKey("P", "a") :> -3)
        @@ (PairKey("T", "a") :> -6) @@ (PairKey("T", "o") :> -6)
        @@ (PairKey("V", "a") :> -5) @@ (PairKey("W", "a") :> -4)
        @@ (PairKey("Y", "o") :> -7) @@ (PairKey("f", "i") :> -2)
        @@ (PairKey("r", "a") :> -2) @@ (PairKey("T", "y") :> -6)
  IN  [ pair \in DOMAIN commonPairs |->
          RoundPercent(commonPairs[pair], f.unitsPerEm) ]

\* what tryCanvasMetricsApproach can return for a file: nothing (the font face
\* does not load, no 2d context, or no width difference above 0.5px), or the
\* pairs it measured
CanvasMeasurements == { EmptyMapping, (PairKey("A", "V") :> -45) }

\* the source holds two definitions of loadFontAndExtractKerning
LoaderDefinitions == { "explicit-only", "with-fallbacks" }

\* the definition that falls back to the canvas and to synthetic values
loadWithFallbacks(f, canvasKerning) ==
  IF ~f.hasCharToGlyph \/ ~f.hasGetKerningValue
  THEN Thrown("Failed to load font")
  ELSE LET kerningPairs == extractKerningPairs(f) IN
       IF DOMAIN kerningPairs = { }
       THEN IF DOMAIN canvasKerning # { }
            THEN Returned([ kerningPairs |-> canvasKerning,
                            note |-> "Kerning extracted via canvas (approximate)" ])
            ELSE Returned([ kerningPairs |-> generateSyntheticKerning(f),
                            note |-> "Using synthetic kerning data for demonstration" ])
       ELSE Returned([ kerningPairs |-> kerningPairs, note |-> "" ])

\* the definition that keeps to the font's tables
loadExplicitOnly(f) ==
  Returned([ kerningPairs |-> extractKerningPairs(f), note |-> "" ])

loadFontAndExtractKerning(f, definition, canvasKerning) ==
  IF definition = "explicit-only" THEN loadExplicitOnly(f)
  ELSE loadWithFallbacks(f, canvasKerning)

Lookup(kerningPairs, pairKey) ==
  IF pairKey \in DOMAIN kerningPairs THEN Some(kerningPairs[pairKey]) ELSE None

\* ---------------------------------------------------------------- analytics
\* the distinct elements of a sequence in order of first occurrence
Distinct(seq) ==
  LET positions == [ i \in 1..Len(seq) |-> i ]
      first == SelectSeq(positions,
                         LAMBDA i : \A j \in 1..(i - 1) : seq[j] # seq[i])
  IN  [ k \in 1..Len(first) |-> seq[first[k]] ]

\* a property name that is an array index: such names are enumerated first,
\* in ascending numeric order
IsArrayIndex(name) == Len(name) = 1 /\ name[1] \in numbers

DigitValue(c) ==
  CASE c = "0" -> 0 [] c = "1" -> 1 [] c = "2" -> 2 [] c = "3" -> 3
    [] c = "4" -> 4 [] c = "5" -> 5 [] c = "6" -> 6 [] c = "7" -> 7
    [] c = "8" -> 8 [] c = "9" -> 9

CompareIndex(a, b) == DigitValue(a[1]) - DigitValue(b[1])

\* Object.entries order of a frequency table whose names were inserted in
\* the order of the given sequence
EntriesOrder(inserted) ==
  LET names == Distinct(inserted) IN
  StableSort(SelectSeq(names, IsArrayIndex), CompareIndex)
    \o SelectSeq(names, LAMBDA name : ~IsArrayIndex(name))

CompareCount(a, b) == b.count - a.count

\* one side of analyzePotentialSpacingCandidates; count >= N * 0.05 is
\* 20 * count >= N
HighFrequency(members) ==
  LET N == Len(members)
      frequency(name) == Cardinality({ i \in 1..N : members[i] = name })
      entries == EntriesOrder(members)
      kept == SelectSeq(entries, LAMBDA name : 20 * frequency(name) >= N)
  IN  StableSort([ i \in 1..Len(kept) |->
                     [ char |-> kept[i], count |-> frequency(kept[i]) ] ],
                 CompareCount)

analyzePotentialSpacingCandidates(kerningPairs) ==
  LET keys == ObjectKeys(kerningPairs) IN
  [ left  |-> HighFrequency([ i \in 1..Len(keys) |-> SplitLeft(keys[i]) ]),
    right |-> HighFrequency([ i \in 1..Len(keys) |-> SplitRight(keys[i]) ]) ]

\* the character class of /^[.,;:!?""''()\[\]{}<>\/\\|@#$%^&*_+=-]$/
punctuationPattern ==
  { ".", ",", ";", ":", "!", "?", "\"", "'", "(", ")", "[", "]", "{", "}",
    "<", ">", "/", Backslash, "|", "@", "#", "$", "%", "^", "&", "*", "_",
    "+", "=", "-" }

\* the characters of \x00-\x7F that the model writes
Ascii ==
  latinUppercase \cup latinLowercase \cup numbers \cup extendedPunctuation
    \cup punctuationPattern

analyzeKerningScope(kerningPairs) ==
  LET chars == UNION { { SplitLeft(k), SplitRight(k) } : k \in DOMAIN kerningPairs }
  IN  [ uppercase   |-> \E c \in chars : Has(latinUppercase, c),
        lowercase   |-> \E c \in chars : Has(latinLowercase, c),
        numbers     |-> \E c \in chars : Has(numbers, c),
        punctuation |-> \E c \in chars : Has(punctuationPattern, c),
        accented    |-> \E c \in chars : Len(c) = 1 /\ c[1] \notin Ascii,
        nonLatin    |-> \E c \in chars : \E i \in 1..Len(c) : c[i] \notin Ascii ]

\* ------------------------------------------------------------------ differ
\* faulty variant: the boundary |difference| = tolerance counted as different
ClassifyStrict(firstValue, afterValue, tolerance) ==
  IF IsSome(firstValue) /\ IsSome(afterValue)
  THEN IF Abs(Val(afterValue) - Val(firstValue)) < tolerance
       THEN "match" ELSE "different"
  ELSE IF IsSome(firstValue) THEN "only-before"
  ELSE "only-after"

\* faulty variant: the tolerance test turned around
ClassifyInverted(firstValue, afterValue, tolerance) ==
  IF IsSome(firstValue) /\ IsSome(afterValue)
  THEN IF Abs(Val(afterValue) - Val(firstValue)) >= tolerance
       THEN "match" ELSE "different"
  ELSE IF IsSome(firstValue) THEN "only-before"
  ELSE "only-after"

Classify(firstValue, afterValue, tolerance) ==
  IF IsSome(firstValue) /\ IsSome(afterValue)
  THEN IF Abs(Val(afterValue) - Val(firstValue)) <= tolerance
       THEN "match" ELSE "different"
  ELSE IF IsSome(firstValue) THEN "only-before"
  ELSE "only-after"

\* faulty variant: the difference stored without its sign
ComparisonItemAbsolute(pairKey, filteredFirstPairs, filteredSecondPairs, tolerance) ==
  LET left == SplitLeft(pairKey)
      right == SplitRight(pairKey)
      firstValue == Lookup(filteredFirstPairs, pairKey)
      afterValue == Lookup(filteredSecondPairs, pairKey)
  IN  [ left        |-> left,
        right       |-> right,
        pair        |-> left \o right,
        beforeValue |-> firstValue,
        afterValue  |-> afterValue,
        difference  |-> IF IsSome(firstValue) /\ IsSome(afterValue)
                        THEN Abs(Val(afterValue) - Val(firstValue)) ELSE 0,
        status      |-> Classify(firstValue, afterValue, tolerance) ]

\* the item the forEach body pushes for one pair key
ComparisonItem(pairKey, filteredFirstPairs, filteredSecondPairs, tolerance) ==
  LET left == SplitLeft(pairKey)
      right == SplitRight(pairKey)
      firstValue == Lookup(filteredFirstPairs, pairKey)
      afterValue == Lookup(filteredSecondPairs, pairKey)
  IN  [ left        |-> left,
        right       |-> right,
        pair        |-> left \o right,
        beforeValue |-> firstValue,
        afterValue  |-> afterValue,
        difference  |-> IF IsSome(firstValue) /\ IsSome(afterValue)
                        THEN Val(afterValue) - Val(firstValue) ELSE 0,
        status      |-> Classify(firstValue, afterValue, tolerance) ]

\* faulty variant: the two key lists concatenated without the Set
allPairKeysConcatenated(filteredFirstPairs, filteredSecondPairs) ==
  ObjectKeys(filteredFirstPairs) \o ObjectKeys(filteredSecondPairs)

\* new Set([...Object.keys(first), ...Object.keys(second)]) in insertion order
allPairKeys(filteredFirstPairs, filteredSecondPairs) ==
  ObjectKeys(filteredFirstPairs)
    \o SelectSeq(ObjectKeys(filteredSecondPairs),
                 LAMBDA k : k \notin DOMAIN filteredFirstPairs)

statusPriority(status) ==
  CASE status = "different"   -> 0
    [] status = "only-before" -> 1
    [] status = "only-after"  -> 2
    [] status = "match"       -> 3

\* the comparator handed to comparisons.sort
CompareItems(a, b) ==
  IF statusPriority(a.status) # statusPriority(b.status)
  THEN statusPriority(a.status) - statusPriority(b.status)
  ELSE IF a.status = "different" /\ b.status = "different"
       THEN Abs(b.difference) - Abs(a.difference)
       ELSE localeCompare(a.left, b.left)

\* faulty variant: the list left in insertion order
sortSkipped(comparisons) == comparisons

\* faulty variant: a sort that is not stable, items the comparator treats as
\* equal come out in the reverse of their insertion order
sortReversingTies(comparisons) ==
  StableSort([ i \in 1..Len(comparisons) |->
                 comparisons[Len(comparisons) + 1 - i] ],
             CompareItems)

sortComparisons(comparisons) == StableSort(comparisons, CompareItems)

CountStatus(comparisons, status) ==
  Cardinality({ i \in 1..Len(comparisons) : comparisons[i].status = status })

\* the value compareKerningTables hands to setComparisonResults
ComparisonResult(filteredFirstPairs, filteredSecondPairs, tolerance) ==
  LET keys == allPairKeys(filteredFirstPairs, filteredSecondPairs)
      unsorted == [ i \in 1..Len(keys) |->
                      ComparisonItem(keys[i], filteredFirstPairs,
                                     filteredSecondPairs, tolerance) ]
  IN  [ comparisons |-> sortComparisons(unsorted),
        stats |->
          [ totalPairs        |-> Len(keys),
            matchCount        |-> CountStatus(unsorted, "match"),
            differenceCount   |-> CountStatus(unsorted, "different"),
            onlyInBeforeCount |-> CountStatus(unsorted, "only-before"),
            onlyInAfterCount  |-> CountStatus(unsorted, "only-after"),
            beforeTotal       |-> Cardinality(DOMAIN filteredFirstPairs),
            afterTotal        |-> Cardinality(DOMAIN filteredSecondPairs) ],
        spacingCandidates |->
          [ before |-> analyzePotentialSpacingCandidates(filteredFirstPairs),
            after  |-> analyzePotentialSpacingCandidates(filteredSecondPairs) ],
        kerningScope |->
          [ before |-> analyzeKerningScope(filteredFirstPairs),
            after  |-> analyzeKerningScope(filteredSecondPairs) ] ]

\* faulty variant: the item returned as it was
ReclassifyItemStale(comp, tolerance) == comp

\* the body of the map callback of the reclassification effect: the status
\* is reassigned, every other field of the item is left as it is
ReclassifyItem(comp, tolerance) ==
  [ comp EXCEPT !.status = Classify(comp.beforeValue, comp.afterValue, tolerance) ]

\* faulty variant: the items reclassified, the counts left as they were
ReclassifyKeepingCounts(result, tolerance) ==
  [ result EXCEPT
      !.comparisons = [ i \in 1..Len(result.comparisons) |->
                          ReclassifyItem(result.comparisons[i], tolerance) ] ]

\* faulty variant: the stats rebuilt from the two recomputed counts alone
ReclassifyRebuildingStats(result, tolerance) ==
  LET updatedComparisons ==
        [ i \in 1..Len(result.comparisons) |->
            ReclassifyItem(result.comparisons[i], tolerance) ]
      matchCount == CountStatus(updatedComparisons, "match")
      differenceCount == CountStatus(updatedComparisons, "different")
  IN  [ result EXCEPT
          !.comparisons = updatedComparisons,
          !.stats = [ totalPairs        |-> matchCount + differenceCount,
                      matchCount        |-> matchCount,
                      differenceCount   |-> differenceCount,
                      onlyInBeforeCount |-> 0,
                      onlyInAfterCount  |-> 0,
                      beforeTotal       |-> result.stats.beforeTotal,
                      afterTotal        |-> result.stats.afterTotal ] ]

\* the value the reclassification effect hands to setComparisonResults
Reclassify(result, tolerance) ==
  LET updatedComparisons ==
        [ i \in 1..Len(result.comparisons) |->
            ReclassifyItem(result.comparisons[i], tolerance) ]
  IN  [ result EXCEPT
          !.comparisons = updatedComparisons,
          !.stats.matchCount = CountStatus(updatedComparisons, "match"),
          !.stats.differenceCount = CountStatus(updatedComparisons, "different") ]

\* ---------------------------------------------------------------- insights
\* the helper functions of the analysis tab, called on the item list held

RECURSIVE SumBetween(_, _, _)
\* the sum of seq[first..last], by halves
SumBetween(seq, first, last) ==
  IF first > last THEN 0
  ELSE IF first = last THEN seq[first]
  ELSE LET middle == (first + last) \div 2
       IN  SumBetween(seq, first, middle) + SumBetween(seq, middle + 1, last)

SumSeq(seq) == SumBetween(seq, 1, Len(seq))

\* slice(0, count)
Slice(seq, count) ==
  SubSeq(seq, 1, IF Len(seq) < count THEN Len(seq) ELSE count)

\* comp[valueProp]
ValueOf(comp, fontKey) ==
  IF fontKey = "before" THEN comp.beforeValue ELSE comp.afterValue

\* comparisons.filter(comp => comp[valueProp] !== null)
validPairs(comparisons, fontKey) ==
  SelectSeq(comparisons, LAMBDA comp : IsSome(ValueOf(comp, fontKey)))

\* n squared times the population variance of a list of n numbers
ScaledVariance(values) ==
  Len(values) * SumSeq([ i \in 1..Len(values) |-> values[i] * values[i] ])
    - SumSeq(values) * SumSeq(values)

OutlierTypes == { "positive", "negative" }

CompareValueDescending(a, b) == b.value - a.value

CompareValueAscending(a, b) == a.value - b.value

\* getOutliers. With n values of sum S, value > mean + 2 * stdDev is, in real
\* numbers, n * value - S > 2 * sqrt(n * Q - S * S), Q the sum of the squares.
\* The code evaluates it in double precision: where the mean S / n is not an
\* integer the deviations carry rounding errors, and a value that lies
\* exactly on the bound is placed beyond it or not by those errors
\* (roundedBeyond); everywhere else the doubles decide as the reals do.
getOutliers(comparisons, fontKey, type, roundedBeyond) ==
  LET valid == validPairs(comparisons, fontKey)
      values == [ i \in 1..Len(valid) |-> Val(ValueOf(valid[i], fontKey)) ]
      n == Len(values)
      deviation(v) == n * v - SumSeq(values)
      far(v) ==
        \/ deviation(v) * deviation(v) > 4 * ScaledVariance(values)
        \/ /\ deviation(v) * deviation(v) = 4 * ScaledVariance(values)
           /\ SumSeq(values) % n # 0
           /\ roundedBeyond
      entries == [ i \in 1..n |-> [ pair |-> valid[i].pair, value |-> values[i] ] ]
  IN  IF type = "positive"
      THEN Slice(StableSort(SelectSeq(entries,
                                      LAMBDA p : deviation(p.value) > 0 /\ far(p.value)),
                            CompareValueDescending),
                 5)
      ELSE Slice(StableSort(SelectSeq(entries,
                                      LAMBDA p : deviation(p.value) < 0 /\ far(p.value)),
                            CompareValueAscending),
                 5)

\* `${left},${right}`
TemplateKey(left, right) == left \o << "," >> \o right

CompareDifference(a, b) == b.difference - a.difference

getAsymmetricPairs(comparisons, fontKey) ==
  LET valid == validPairs(comparisons, fontKey)
      n == Len(valid)
      keyOf(i) == TemplateKey(valid[i].left, valid[i].right)
      \* pairMap: a later set of the same key replaces the earlier one
      has(key) == \E i \in 1..n : keyOf(i) = key
      get(key) ==
        LET last == CHOOSE i \in 1..n :
                      keyOf(i) = key /\ \A j \in (i + 1)..n : keyOf(j) # key
        IN  Val(ValueOf(valid[last], fontKey))
      reversePairKey(comp) == TemplateKey(comp.right, comp.left)
      significant ==
        SelectSeq(valid,
                  LAMBDA comp :
                    /\ has(reversePairKey(comp))
                    /\ Abs(Val(ValueOf(comp, fontKey)) - get(reversePairKey(comp))) > 10)
      asymmetries ==
        [ i \in 1..Len(significant) |->
            LET comp == significant[i]
                value == Val(ValueOf(comp, fontKey))
                reverseValue == get(reversePairKey(comp))
            IN  [ pair         |-> comp.pair,
                  reversePair  |-> comp.right \o comp.left,
                  value        |-> value,
                  reverseValue |-> reverseValue,
                  difference   |-> Abs(value - reverseValue) ] ]
  IN  Slice(StableSort(asymmetries, CompareDifference), 5)

\* b.variance - a.variance, the variances as fractions
CompareVariance(a, b) ==
  b.variance.num * a.variance.den - a.variance.num * b.variance.den

getInconsistentPatterns(comparisons, fontKey) ==
  LET valid == validPairs(comparisons, fontKey)
      lefts == EntriesOrder([ i \in 1..Len(valid) |-> valid[i].left ])
      members(left) == SelectSeq(valid, LAMBDA comp : comp.left = left)
      group(left) ==
        LET pairs == [ i \in 1..Len(members(left)) |->
                         [ pair  |-> members(left)[i].pair,
                           right |-> members(left)[i].right,
                           value |-> Val(ValueOf(members(left)[i], fontKey)) ] ]
            values == [ i \in 1..Len(pairs) |-> pairs[i].value ]
        IN  [ left     |-> left,
              pairs    |-> pairs,
              variance |-> [ num |-> ScaledVariance(values),
                             den |-> Len(values) * Len(values) ],
              mean     |-> [ num |-> SumSeq(values), den |-> Len(values) ] ]
      groups == [ i \in 1..Len(lefts) |-> group(lefts[i]) ]
      inconsistentGroups ==
        SelectSeq(groups,
                  LAMBDA g : /\ Len(g.pairs) >= 3
                             /\ g.variance.num > 100 * g.variance.den)
  IN  Slice(StableSort(inconsistentGroups, CompareVariance), 3)

\* ----------------------------------------------------------- overlay tab
upperLetters ==
  << "A", "B", "C", "D", "E", "F", "G", "H", "I", "J", "K", "L", "M",
     "N", "O", "P", "Q", "R", "S", "T", "U", "V", "W", "X", "Y", "Z" >>

lowerLetters ==
  << "a", "b", "c", "d", "e", "f", "g", "h", "i", "j", "k", "l", "m",
     "n", "o", "p", "q", "r", "s", "t", "u", "v", "w", "x", "y", "z" >>

\* String.prototype.toLowerCase on the characters the model writes
toLowerCase(str) ==
  [ i \in 1..Len(str) |->
      IF \E n \in 1..26 : upperLetters[n] = str[i]
      THEN lowerLetters[CHOOSE n \in 1..26 : upperLetters[n] = str[i]]
      ELSE str[i] ]

\* String.prototype.includes
includes(str, searchString) ==
  \E start \in 0..(Len(str) - Len(searchString)) :
    SubSeq(str, start + 1, start + Len(searchString)) = searchString

\* getFilteredComparisons; showOnlyDifferences is never set
getFilteredComparisons(results, filter) ==
  IF IsNone(results) THEN << >>
  ELSE IF filter # "all"
       THEN SelectSeq(Val(results).comparisons, LAMBDA comp : comp.status = filter)
       ELSE Val(results).comparisons

\* the list the overlay tab and navigateToPair work on
filteredPairs(results, filter, term) ==
  SelectSeq(getFilteredComparisons(results, filter),
            LAMBDA comp : includes(toLowerCase(comp.pair), toLowerCase(term)))

\* the render of the overlay tab with a result held: the empty view, or the
\* read of filteredPairs[currentPairIndex]. With the index past the end the
\* render calls setCurrentPairIndex(0) and goes on to read at the index it
\* was entered with, which gives undefined, and currentPair.pair throws
OverlayRender(results, filter, term, index) ==
  LET length == Len(filteredPairs(results, filter, term)) IN
  IF length = 0 THEN [ outcome |-> "empty", read |-> None, length |-> 0 ]
  ELSE IF index >= length
       THEN [ outcome |-> "TypeError", read |-> Some(index), length |-> length ]
       ELSE [ outcome |-> "pair", read |-> Some(index), length |-> length ]

\* ------------------------------------------------------------------- state
VARIABLES
  fontFirst,          \* kerningPairs of the first font, None before an upload
  fontSecond,         \* kerningPairs of the second font, None before an upload
  discrepancyUnits,   \* the tolerance
  dictionary,         \* id of the selected dictionary
  comparisonResults,  \* None, or Some(result)
  isAnalyzing,
  error,              \* None, or Some(message)
  activeFilter,
  resultFirstPairs,   \* filteredFirstPairs of the run that stored the result
  resultSecondPairs,  \* filteredSecondPairs of the run that stored the result
  customDictionary,   \* the text of the Custom Characters textarea
  previousRun,        \* None, or Some(inputs and item list of the last run
                      \* that stored a result and whose fonts and dictionary
                      \* are still the current ones); kept by SpecRerun only
  filterArg,          \* a call of filterPairsByDictionary: its kerningPairs,
  filterId,           \*   its dictionaryId
  filterReturn,       \*   and how the call, and then the call on what it
                      \*   returned, ended (a sequence, empty before the call)
  font,               \* a call of the extractor or the loader: the font object
  extractReturn,      \*   None, or Some(how extractKerningPairs ended)
  loadReturn,         \*   None, or Some(how loadFontAndExtractKerning ended)
  insightReturn,      \* None, or Some(a call of a helper of the analysis tab
                      \*   on the item list held, and what it returned)
  loop,               \* a run of extractKerningPairs on font, between two
                      \*   passes of its outer loop: i, the lookups made so
                      \*   far and kerningPairs
  activeTab,          \* the tab shown
  searchTerm,         \* the text of the pair search field
  currentPairIndex,   \* the overlay tab's position in the filtered list
  overlayView         \* how the last render of the overlay tab ended: None
                      \*   where the tab is not rendered

\* the state of the KerningComparison component and of the dictionaries module
appVars ==
  << fontFirst, fontSecond, discrepancyUnits, dictionary, comparisonResults,
     isAnalyzing, error, activeFilter, resultFirstPairs, resultSecondPairs,
     customDictionary, customCharacters, profileCharacters >>

filterVars == << filterArg, filterId, filterReturn >>

extractVars == << font, extractReturn, loadReturn >>

insightVars == << insightReturn >>

loopVars == << loop >>

overlayVars == << activeTab, searchTerm, currentPairIndex, overlayView >>

vars ==
  << appVars, previousRun, filterVars, extractVars, insightVars, loopVars,
     overlayVars >>

InitialDiscrepancyUnits == 5

StatusFilters == { "all", "different", "only-before", "only-after", "match" }

\* the component after its first render
InitComponent ==
  /\ fontFirst = None
  /\ fontSecond = None
  /\ discrepancyUnits = InitialDiscrepancyUnits
  /\ comparisonResults = None
  /\ isAnalyzing = FALSE
  /\ error = None
  /\ activeFilter = "all"
  /\ resultFirstPairs = EmptyMapping
  /\ resultSecondPairs = EmptyMapping

\* the component after its first render, the dictionaries module as loaded
InitApp ==
  /\ InitComponent
  /\ dictionary = "latin-normal"
  /\ customDictionary = << >>
  /\ customCharacters = << >>
  /\ InitDictionaries

\* the messages compareKerningTables hands to setError
NoPairsError ==
  << "No kerning pairs found in either font. Try a different font file or check font format support." >>

\* faulty variant: the message of the unfiltered case reused
EmptyFilterErrorUnnamed(dictionaryId) ==
  << "No kerning pairs found after filtering. Try a different dictionary." >>

EmptyFilterError(dictionaryId) ==
  << "No kerning pairs found after filtering with the \"",
     DICTIONARY_OPTIONS[dictionaryId],
     "\" dictionary. Try a different dictionary." >>

\* ----------------------------------------------------------------- actions
\* FontUploader.handleFileChange of the first uploader, up to setFont
UploadFirst ==
  \E kerningPairs \in FontFiles :
    /\ fontFirst' = Some(kerningPairs)
    /\ UNCHANGED << fontSecond, discrepancyUnits, dictionary, comparisonResults,
                    isAnalyzing, error, activeFilter, resultFirstPairs,
                    resultSecondPairs, customDictionary, customCharacters,
                    profileCharacters >>

\* FontUploader.handleFileChange of the second uploader, up to setFont
UploadSecond ==
  \E kerningPairs \in FontFiles :
    /\ fontSecond' = Some(kerningPairs)
    /\ UNCHANGED << fontFirst, discrepancyUnits, dictionary, comparisonResults,
                    isAnalyzing, error, activeFilter, resultFirstPairs,
                    resultSecondPairs, customDictionary, customCharacters,
                    profileCharacters >>

\* the entry of the table getDictionary(dictionaryId) returns: the entry of that
\* name, or the latin-normal entry where the table has none
EntryOf(dictionaryId) ==
  IF dictionaryId \in DOMAIN ProfileSets THEN dictionaryId ELSE "latin-normal"

\* faulty variant: the effect asks for an entry the table does not have
EffectEntryMisspelt == "Custom"

\* the name the effect on [dictionary, customDictionary] hands to getDictionary
EffectEntry == "custom"

\* the effect on [dictionary, customDictionary], run after a render in which
\* one of the two changed: dictionaries.characters = customDictionary on the
\* object getDictionary returned, while the custom dictionary is selected
CustomDictionaryEffect ==
  IF dictionary' = "custom"
  THEN IF EntryOf(EffectEntry) = "custom"
       THEN /\ customCharacters' = customDictionary'
            /\ UNCHANGED profileCharacters
       ELSE /\ profileCharacters' =
                 [ profileCharacters EXCEPT
                     ![EntryOf(EffectEntry)] = CharSet(customDictionary') ]
            /\ UNCHANGED customCharacters
  ELSE UNCHANGED << customCharacters, profileCharacters >>

\* the dictionary select's onChange and the effect on [dictionary,
\* customDictionary] that follows it
SetDictionary ==
  \E id \in DOMAIN DICTIONARY_OPTIONS :
    /\ id # dictionary
    /\ dictionary' = id
    /\ UNCHANGED << fontFirst, fontSecond, discrepancyUnits, comparisonResults,
                    isAnalyzing, error, activeFilter, resultFirstPairs,
                    resultSecondPairs, customDictionary >>
    /\ CustomDictionaryEffect

\* the Custom Characters textarea's onChange (rendered only while the custom
\* dictionary is selected) and the effect on [dictionary, customDictionary]
\* that follows it
SetCustomDictionary ==
  \E text \in CustomTexts :
    /\ dictionary = "custom"
    /\ text # customDictionary
    /\ customDictionary' = text
    /\ UNCHANGED << fontFirst, fontSecond, discrepancyUnits, dictionary,
                    comparisonResults, isAnalyzing, error, activeFilter,
                    resultFirstPairs, resultSecondPairs >>
    /\ CustomDictionaryEffect

\* the status filter buttons of the side-by-side tab, which is rendered only
\* while a result is held
SetActiveFilter ==
  \E filter \in StatusFilters :
    /\ IsSome(comparisonResults)
    /\ filter # activeFilter
    /\ activeFilter' = filter
    /\ UNCHANGED << fontFirst, fontSecond, discrepancyUnits, dictionary,
                    comparisonResults, isAnalyzing, error, resultFirstPairs,
                    resultSecondPairs, customDictionary, customCharacters,
                    profileCharacters >>

\* the Compare button's onClick (enabled with both fonts loaded and no
\* analysis running); the whole handler, ending in its finally block
compareKerningTables ==
  /\ IsSome(fontFirst) /\ IsSome(fontSecond) /\ ~isAnalyzing
  /\ LET firstPairs == Val(fontFirst)
         secondPairs == Val(fontSecond)
         filteredFirstPairs == filterPairsByDictionary(firstPairs, dictionary)
         filteredSecondPairs == filterPairsByDictionary(secondPairs, dictionary)
     IN  IF DOMAIN firstPairs = { } /\ DOMAIN secondPairs = { }
         THEN /\ error' = Some(NoPairsError)
              /\ UNCHANGED << comparisonResults, resultFirstPairs, resultSecondPairs >>
         ELSE IF DOMAIN filteredFirstPairs = { } /\ DOMAIN filteredSecondPairs = { }
         THEN /\ error' = Some(EmptyFilterError(dictionary))
              /\ UNCHANGED << comparisonResults, resultFirstPairs, resultSecondPairs >>
         ELSE /\ error' = None
              /\ comparisonResults' =
                   Some(ComparisonResult(filteredFirstPairs, filteredSecondPairs,
                                         discrepancyUnits))
              /\ resultFirstPairs' = filteredFirstPairs
              /\ resultSecondPairs' = filteredSecondPairs
  /\ isAnalyzing' = FALSE
  /\ UNCHANGED << fontFirst, fontSecond, discrepancyUnits, dictionary, activeFilter,
                  customDictionary, customCharacters, profileCharacters >>

\* the tolerance slider's onChange (side-by-side tab, rendered only while a
\* result is held) and the effect on [discrepancyUnits] that follows it
SetDiscrepancyUnits ==
  \E units \in ToleranceChoices :
    /\ IsSome(comparisonResults)
    /\ units # discrepancyUnits
    /\ discrepancyUnits' = units
    /\ comparisonResults' = Some(Reclassify(Val(comparisonResults), units))
    /\ activeFilter' = "all"
    /\ UNCHANGED << fontFirst, fontSecond, dictionary, isAnalyzing, error,
                    resultFirstPairs, resultSecondPairs, customDictionary,
                    customCharacters, profileCharacters >>

\* no pass of the extractor's loop made
InitLoop == loop = [ i |-> 0, examined |-> 0, kerningPairs |-> EmptyMapping ]

\* the tabs after the first render: Settings shown, the search field empty
InitOverlay ==
  /\ activeTab = "settings"
  /\ searchTerm = << >>
  /\ currentPairIndex = 0
  /\ overlayView = None

\* no call of the filter, the extractor or the loader under observation
InitCalls ==
  /\ filterArg = EmptyMapping
  /\ filterId = "latin-normal"
  /\ filterReturn = << >>
  /\ font = PlainFont
  /\ extractReturn = None
  /\ loadReturn = None
  /\ insightReturn = None
  /\ InitLoop
  /\ InitOverlay

Init == InitApp /\ previousRun = None /\ InitCalls

\* the comparison: uploads, dictionary, compare, tolerance and status filter,
\* with the custom text left empty
Next ==
  \/ UploadFirst /\ UNCHANGED << previousRun, filterVars, extractVars, insightVars, loopVars, overlayVars >>
  \/ UploadSecond /\ UNCHANGED << previousRun, filterVars, extractVars, insightVars, loopVars, overlayVars >>
  \/ SetDictionary /\ UNCHANGED << previousRun, filterVars, extractVars, insightVars, loopVars, overlayVars >>
  \/ SetActiveFilter /\ UNCHANGED << previousRun, filterVars, extractVars, insightVars, loopVars, overlayVars >>
  \/ compareKerningTables /\ UNCHANGED << previousRun, filterVars, extractVars, insightVars, loopVars, overlayVars >>
  \/ SetDiscrepancyUnits /\ UNCHANGED << previousRun, filterVars, extractVars, insightVars, loopVars, overlayVars >>

Spec == Init /\ [][Next]_vars

\* ------------------------------------------------- the custom dictionary
\* the comparison with the Custom Characters textarea, at the initial
\* tolerance
NextCustom ==
  \/ UploadFirst /\ UNCHANGED << previousRun, filterVars, extractVars, insightVars, loopVars, overlayVars >>
  \/ UploadSecond /\ UNCHANGED << previousRun, filterVars, extractVars, insightVars, loopVars, overlayVars >>
  \/ SetDictionary /\ UNCHANGED << previousRun, filterVars, extractVars, insightVars, loopVars, overlayVars >>
  \/ SetCustomDictionary /\ UNCHANGED << previousRun, filterVars, extractVars, insightVars, loopVars, overlayVars >>
  \/ compareKerningTables /\ UNCHANGED << previousRun, filterVars, extractVars, insightVars, loopVars, overlayVars >>

SpecCustom == Init /\ [][NextCustom]_vars

\* ------------------------------------------------------ repeated compare
\* the inputs of compare are those of the remembered run
SameInputs ==
  /\ IsSome(previousRun)
  /\ IsSome(fontFirst) /\ Val(previousRun).firstPairs = Val(fontFirst)
  /\ IsSome(fontSecond) /\ Val(previousRun).secondPairs = Val(fontSecond)
  /\ Val(previousRun).dictionary = dictionary
  /\ Val(previousRun).discrepancyUnits = discrepancyUnits

\* compareKerningTables, remembering the inputs and the item list of the run
\* and whether the run before it had the same inputs
RecordedCompare ==
  /\ compareKerningTables
  /\ previousRun' =
       IF IsNone(error')
       THEN Some([ firstPairs |-> Val(fontFirst),
                   secondPairs |-> Val(fontSecond),
                   dictionary |-> dictionary,
                   discrepancyUnits |-> discrepancyUnits,
                   comparisons |-> Val(comparisonResults').comparisons,
                   repeated |-> SameInputs ])
       ELSE previousRun

\* the run is remembered while the fonts and the dictionary stay as they were
\* (the tolerance may move away and back)
KeepRunOfSameFonts ==
  previousRun' =
    IF << fontFirst', fontSecond', dictionary' >> = << fontFirst, fontSecond, dictionary >>
    THEN previousRun
    ELSE None

NextRerun ==
  \/ UploadFirst /\ KeepRunOfSameFonts /\ UNCHANGED << filterVars, extractVars, insightVars, loopVars, overlayVars >>
  \/ UploadSecond /\ KeepRunOfSameFonts /\ UNCHANGED << filterVars, extractVars, insightVars, loopVars, overlayVars >>
  \/ SetDictionary /\ KeepRunOfSameFonts /\ UNCHANGED << filterVars, extractVars, insightVars, loopVars, overlayVars >>
  \/ SetDiscrepancyUnits /\ UNCHANGED << previousRun, filterVars, extractVars, insightVars, loopVars, overlayVars >>
  \/ RecordedCompare /\ UNCHANGED << filterVars, extractVars, insightVars, loopVars, overlayVars >>

SpecRerun == Init /\ [][NextRerun]_vars

\* ------------------------------------------------- the dictionary filter
CandidateKeys ==
  { PairKey(characters[i], characters[j]) :
      i \in 1..Len(characters), j \in 1..Len(characters) }

\* the characters the filter is called on
FilterChars == { "A", "V", "1", "," }

\* the mappings with at most MaxPairs entries over the candidate keys of
\* these characters
FilterInputs ==
  LET filterKeys == { k \in CandidateKeys :
                        k[1] \in FilterChars /\ k[3] \in FilterChars }
  IN  UNION { [ keys -> KerningValues ] :
                keys \in { K \in SUBSET filterKeys : Cardinality(K) <= MaxPairs } }

\* the ids of the select, an id nothing answers to, and an id only
\* Object.prototype answers to
DictionaryIds == DOMAIN DICTIONARY_OPTIONS \cup { "unknown", "constructor" }

\* a call of the filter on any input, with the custom text the user has typed
InitFilter ==
  /\ InitComponent
  /\ customDictionary \in CustomTexts
  /\ customCharacters = customDictionary
  /\ InitDictionaries
  /\ dictionary = IF customDictionary = << >> THEN "latin-normal" ELSE "custom"
  /\ previousRun = None
  /\ filterArg \in FilterInputs
  /\ filterId \in DictionaryIds
  /\ filterReturn = << >>
  /\ font = PlainFont
  /\ extractReturn = None
  /\ loadReturn = None
  /\ insightReturn = None
  /\ InitLoop
  /\ InitOverlay

CallFilter ==
  /\ Len(filterReturn) = 0
  /\ filterReturn' = << filterPairsByDictionaryCall(filterArg, filterId) >>
  /\ UNCHANGED << filterArg, filterId >>

\* the filter called on what it returned
CallFilterAgain ==
  /\ Len(filterReturn) = 1
  /\ filterReturn[1].type = "return"
  /\ filterReturn' =
       Append(filterReturn,
              filterPairsByDictionaryCall(filterReturn[1].value, filterId))
  /\ UNCHANGED << filterArg, filterId >>

NextFilter ==
  \/ CallFilter /\ UNCHANGED << appVars, previousRun, extractVars, insightVars, loopVars, overlayVars >>
  \/ CallFilterAgain /\ UNCHANGED << appVars, previousRun, extractVars, insightVars, loopVars, overlayVars >>

SpecFilter == InitFilter /\ [][NextFilter]_vars

\* ------------------------------------------- the extractor and the loader
CandidateChars == { characters[i] : i \in 1..Len(characters) }

\* the kerning tables of the fonts handed to the extractor
\* (one of them also kerns W, which is not among the candidate characters)
KernTables ==
  FontFiles \cup { (PairKey("A", "V") :> -50) @@ (PairKey("V", ",") :> -80)
                     @@ (PairKey("A", "W") :> -60) }

\* largest number of characters, and of pairs, whose lookup throws
MaxThrowing == 1

\* the characters whose lookup may throw
ThrowingChars == { "A", "V", "1", "," }

FontObjects ==
  { [ hasCharToGlyph |-> c, hasGetKerningValue |-> g, throwingChars |-> tc,
      throwingPairs |-> tp, kern |-> k, unitsPerEm |-> u ] :
      c \in BOOLEAN, g \in BOOLEAN,
      tc \in { S \in SUBSET ThrowingChars : Cardinality(S) <= MaxThrowing },
      tp \in { S \in SUBSET (ThrowingChars \X ThrowingChars) :
                 Cardinality(S) <= MaxThrowing },
      k \in KernTables, u \in { 1000, 2048 } }

InitExtract ==
  /\ InitApp
  /\ previousRun = None
  /\ filterArg = EmptyMapping
  /\ filterId = "latin-normal"
  /\ filterReturn = << >>
  /\ font \in FontObjects
  /\ extractReturn = None
  /\ loadReturn = None
  /\ insightReturn = None
  /\ InitLoop
  /\ InitOverlay

CallExtract ==
  /\ extractReturn = None
  /\ extractReturn' = Some(Returned(extractKerningPairs(font)))
  /\ UNCHANGED << font, loadReturn >>

CallLoad ==
  \E definition \in LoaderDefinitions, canvasKerning \in CanvasMeasurements :
    /\ loadReturn = None
    /\ loadReturn' = Some(loadFontAndExtractKerning(font, definition, canvasKerning))
    /\ UNCHANGED << font, extractReturn >>

NextExtract ==
  \/ CallExtract /\ UNCHANGED << appVars, previousRun, filterVars, insightVars, loopVars, overlayVars >>
  \/ CallLoad /\ UNCHANGED << appVars, previousRun, filterVars, insightVars, loopVars, overlayVars >>

SpecExtract == InitExtract /\ [][NextExtract]_vars

\* ------------------------------------------------------- the analysis tab
\* a font whose kerning is given row by row: rows[l][r] is None or
\* Some(value) for the l-th candidate character on the left and the r-th on
\* the right
FontOfRows(rows) ==
  LET n == Len(characters)
      present == { << l, r >> \in (1..n) \X (1..n) : IsSome(rows[l][r]) }
  IN  [ k \in { PairKey(characters[p[1]], characters[p[2]]) : p \in present } |->
          LET p == CHOOSE q \in present :
                     k = PairKey(characters[q[1]], characters[q[2]])
          IN  Val(rows[p[1]][p[2]]) ]

FlatRow == [ r \in 1..Len(characters) |-> Some(-10) ]

\* for each left character in turn, a row of its own: uneven rows for A, V,
\* 1 and the comma, a row far above the others for T, and for o a row whose
\* variance is exactly 100
OwnRows ==
  << << Some(-80), Some(-10), Some(-50), None, Some(-20), Some(-45) >>,
     << Some(200), Some(200), Some(200), Some(200), Some(200), Some(210) >>,
     << Some(-90), Some(-30), None, Some(-10), Some(-10), Some(-60) >>,
     << Some(-40), Some(-40), Some(-20), Some(-20), None, None >>,
     << Some(-70), None, Some(-20), Some(-20), Some(-10), None >>,
     << Some(-55), Some(-5), Some(-30), None, None, None >> >>

\* the fonts in which every left character has the flat row or its own row
RowFonts ==
  { FontOfRows([ l \in 1..Len(characters) |->
                   IF own[l] THEN OwnRows[l] ELSE FlatRow ]) :
      own \in [ 1..Len(characters) -> BOOLEAN ] }

\* most pairs of a font of the second family
MaxInsightPairs == 3

\* the fonts with at most MaxInsightPairs of these pairs, A and V and the
\* comma on either side
PairFonts ==
  LET keys == { PairKey("A", "V"), PairKey("V", "A"), PairKey("V", ","),
                PairKey(",", "V"), PairKey(",", "A"), PairKey("A", ",") }
  IN  UNION { [ K -> { -50, -40, -20 } ] :
                K \in { S \in SUBSET keys : Cardinality(S) <= MaxInsightPairs } }

\* four equal pairs and one apart from them: by 24 units, which is twice the
\* standard deviation above the mean of -45.2, and by 25 units, twice the
\* standard deviation above the mean of -45
FiveFonts ==
  { (PairKey("A", "T") :> -50) @@ (PairKey("A", "V") :> -50)
      @@ (PairKey("T", "A") :> -50) @@ (PairKey("V", "A") :> -50)
      @@ (PairKey("T", "o") :> apart) : apart \in { -26, -25 } }

\* A, T, V and 1 kerned against A, T, V, 1 and the comma, and o against A
\* alone: o is on the left in 1 pair of 21, and in 1 of 20 with the pair of
\* 1 and the comma left out
RareFonts ==
  { FontOfRows([ l \in 1..Len(characters) |->
                   CASE l \in { 1, 2, 3 } ->
                          << Some(-10), Some(-10), Some(-10), None, Some(-10), Some(-10) >>
                     [] l = 4 -> << Some(-10), None, None, None, None, None >>
                     [] l = 5 ->
                          << Some(-10), Some(-10), Some(-10), None, Some(-10), last >>
                     [] l = 6 -> << None, None, None, None, None, None >> ]) :
      last \in { None, Some(-10) } }

InsightFonts == RowFonts \cup PairFonts \cup FiveFonts \cup RareFonts

\* both fonts uploaded and All Pairs selected, no comparison run yet
InitInsights ==
  /\ fontFirst \in { Some(kerningPairs) : kerningPairs \in InsightFonts }
  /\ fontSecond \in { Some(FontLibrary[1]), Some(FontLibrary[3]) }
  /\ discrepancyUnits = InitialDiscrepancyUnits
  /\ dictionary = "all-pairs"
  /\ comparisonResults = None
  /\ isAnalyzing = FALSE
  /\ error = None
  /\ activeFilter = "all"
  /\ resultFirstPairs = EmptyMapping
  /\ resultSecondPairs = EmptyMapping
  /\ customDictionary = << >>
  /\ customCharacters = << >>
  /\ InitDictionaries
  /\ previousRun = None
  /\ InitCalls

FontKeys == { "before", "after" }

\* the analysis tab, rendered only while a result is held, calling
\* getOutliers on the item list; one call is observed
CallOutliers ==
  \E fontKey \in FontKeys, type \in OutlierTypes, roundedBeyond \in BOOLEAN :
    /\ IsSome(comparisonResults)
    /\ IsNone(insightReturn)
    /\ insightReturn' =
         Some([ call |-> "getOutliers", fontKey |-> fontKey, type |-> type,
                value |-> getOutliers(Val(comparisonResults).comparisons,
                                      fontKey, type, roundedBeyond) ])

CallAsymmetricPairs ==
  \E fontKey \in FontKeys :
    /\ IsSome(comparisonResults)
    /\ IsNone(insightReturn)
    /\ insightReturn' =
         Some([ call |-> "getAsymmetricPairs", fontKey |-> fontKey, type |-> "",
                value |-> getAsymmetricPairs(Val(comparisonResults).comparisons,
                                             fontKey) ])

CallInconsistentPatterns ==
  \E fontKey \in FontKeys :
    /\ IsSome(comparisonResults)
    /\ IsNone(insightReturn)
    /\ insightReturn' =
         Some([ call |-> "getInconsistentPatterns", fontKey |-> fontKey, type |-> "",
                value |-> getInconsistentPatterns(Val(comparisonResults).comparisons,
                                                  fontKey) ])

NextInsights ==
  \/ compareKerningTables /\ UNCHANGED << previousRun, filterVars, extractVars, insightVars, loopVars, overlayVars >>
  \/ CallOutliers /\ UNCHANGED << appVars, previousRun, filterVars, extractVars, loopVars, overlayVars >>
  \/ CallAsymmetricPairs /\ UNCHANGED << appVars, previousRun, filterVars, extractVars, loopVars, overlayVars >>
  \/ CallInconsistentPatterns /\ UNCHANGED << appVars, previousRun, filterVars, extractVars, loopVars, overlayVars >>

SpecInsights == InitInsights /\ [][NextInsights]_vars

\* ------------------------------------------------- the extractor's loop
\* a font that kerns every ordered pair of its characters
FullFont ==
  [ PlainFont EXCEPT
      !.kern = [ k \in { PairKey(l, r) : l \in Range(allCharacters),
                                         r \in Range(allCharacters) } |-> -10 ] ]

\* fonts with both lookups: one that kerns every pair, one of them with a
\* character the font lacks, and the font files at hand
LoopFonts ==
  { FullFont, [ FullFont EXCEPT !.throwingChars = { "_" } ] }
    \cup { [ PlainFont EXCEPT !.kern = kerningPairs ] : kerningPairs \in FontFiles }

\* extractKerningPairs entered with a font that passes the check of its two
\* lookups
InitLoopRun ==
  /\ InitApp
  /\ previousRun = None
  /\ filterArg = EmptyMapping
  /\ filterId = "latin-normal"
  /\ filterReturn = << >>
  /\ font \in LoopFonts
  /\ extractReturn = None
  /\ loadReturn = None
  /\ insightReturn = None
  /\ InitLoop
  /\ InitOverlay

\* faulty variant: the inner loop stops one character short
LoopPassShort ==
  /\ loop.i < Len(allCharacters)
  /\ loop' = [ i |-> loop.i + 1,
               examined |-> loop.examined + Len(allCharacters) - 1,
               kerningPairs |->
                 extractRow(font, loop.kerningPairs, allCharacters[loop.i + 1]) ]
  /\ UNCHANGED << font, extractReturn, loadReturn >>

\* one pass of the outer loop: i < characters.length, the inner loop, i++
LoopPass ==
  /\ loop.i < Len(allCharacters)
  /\ loop' = [ i |-> loop.i + 1,
               examined |-> loop.examined + Len(allCharacters),
               kerningPairs |->
                 extractRow(font, loop.kerningPairs, allCharacters[loop.i + 1]) ]
  /\ UNCHANGED << font, extractReturn, loadReturn >>

\* the loop left: return kerningPairs
LoopReturn ==
  /\ loop.i = Len(allCharacters)
  /\ extractReturn = None
  /\ extractReturn' = Some(Returned(loop.kerningPairs))
  /\ UNCHANGED << font, loadReturn, loop >>

NextLoop ==
  \/ LoopPass /\ UNCHANGED << appVars, previousRun, filterVars, insightVars, overlayVars >>
  \/ LoopReturn /\ UNCHANGED << appVars, previousRun, filterVars, insightVars, overlayVars >>

SpecLoop == InitLoopRun /\ [][NextLoop]_vars

\* ------------------------------------------------------- the overlay tab
\* the texts typed into the pair search field
SearchTerms == { << >>, << "a" >>, << "1", "1" >> }

Tabs == { "settings", "analysis", "comparison", "overlay" }

\* the component tree is mounted: no render has thrown (there is no error
\* boundary, so an error thrown by a render unmounts the tree)
Mounted ==
  IF IsNone(overlayView) THEN TRUE ELSE Val(overlayView).outcome # "TypeError"

\* the render that follows a handler, the handler's other state updates
\* made and the index at indexAfter: the overlay tab is rendered with a
\* result held and the overlay tab selected
Render(indexAfter) ==
  IF activeTab' = "overlay" /\ IsSome(comparisonResults')
  THEN LET view == OverlayRender(comparisonResults', activeFilter', searchTerm',
                                 indexAfter)
       IN  /\ overlayView' = Some(view)
           /\ currentPairIndex' = IF view.outcome = "TypeError" THEN 0
                                  ELSE indexAfter
  ELSE /\ overlayView' = None
       /\ currentPairIndex' = indexAfter

\* the tab buttons; all but Settings are disabled until a result is held
SetActiveTab ==
  \E tab \in Tabs :
    /\ tab # activeTab
    /\ tab = "settings" \/ IsSome(comparisonResults)
    /\ activeTab' = tab
    /\ UNCHANGED << appVars, searchTerm >>
    /\ Render(currentPairIndex)

\* the search field of the side-by-side tab
SetSearchTerm ==
  \E term \in SearchTerms :
    /\ activeTab = "comparison" /\ IsSome(comparisonResults)
    /\ term # searchTerm
    /\ searchTerm' = term
    /\ UNCHANGED << appVars, activeTab >>
    /\ Render(currentPairIndex)

\* the Previous and Next buttons of the overlay tab, rendered with the pair
navigateToPair ==
  \E direction \in { "next", "prev" } :
    /\ activeTab = "overlay" /\ IsSome(comparisonResults)
    /\ IsSome(overlayView) /\ Val(overlayView).outcome = "pair"
    /\ UNCHANGED << appVars, activeTab, searchTerm >>
    /\ LET length == Len(filteredPairs(comparisonResults, activeFilter, searchTerm))
       IN  IF length = 0 THEN Render(currentPairIndex)
           ELSE IF direction = "next"
                THEN Render((currentPairIndex + 1) % length)
                ELSE Render((currentPairIndex - 1 + length) % length)

\* the Reset filters button of the overlay tab's empty view
ResetFilters ==
  /\ activeTab = "overlay" /\ IsSome(comparisonResults)
  /\ IsSome(overlayView) /\ Val(overlayView).outcome = "empty"
  /\ activeFilter' = "all"
  /\ searchTerm' = << >>
  /\ UNCHANGED << fontFirst, fontSecond, discrepancyUnits, dictionary,
                  comparisonResults, isAnalyzing, error, resultFirstPairs,
                  resultSecondPairs, customDictionary, customCharacters,
                  profileCharacters, activeTab >>
  /\ Render(currentPairIndex)

\* uploads and Compare on the Settings tab, the status filter, the search
\* field and the tolerance on the side-by-side tab, navigation on the
\* overlay tab
NextOverlay ==
  \/ /\ activeTab = "settings"
     /\ UploadFirst
     /\ UNCHANGED << previousRun, filterVars, extractVars, insightVars, loopVars, overlayVars >>
  \/ /\ activeTab = "settings"
     /\ UploadSecond
     /\ UNCHANGED << previousRun, filterVars, extractVars, insightVars, loopVars, overlayVars >>
  \/ /\ activeTab = "settings"
     /\ compareKerningTables
     /\ UNCHANGED << previousRun, filterVars, extractVars, insightVars, loopVars, overlayVars >>
  \/ /\ activeTab = "comparison"
     /\ SetActiveFilter
     /\ UNCHANGED << previousRun, filterVars, extractVars, insightVars, loopVars, overlayVars >>
  \/ /\ activeTab = "comparison"
     /\ SetDiscrepancyUnits
     /\ UNCHANGED << previousRun, filterVars, extractVars, insightVars, loopVars, overlayVars >>
  \/ Mounted /\ SetActiveTab
       /\ UNCHANGED << previousRun, filterVars, extractVars, insightVars, loopVars >>
  \/ SetSearchTerm /\ UNCHANGED << previousRun, filterVars, extractVars, insightVars, loopVars >>
  \/ navigateToPair /\ UNCHANGED << previousRun, filterVars, extractVars, insightVars, loopVars >>
  \/ ResetFilters /\ UNCHANGED << previousRun, filterVars, extractVars, insightVars, loopVars >>

SpecOverlay == Init /\ [][NextOverlay]_vars

\* ------------------------------------------------------------------ claims
HasResult == IsSome(comparisonResults)

Items == Val(comparisonResults).comparisons

Stats == Val(comparisonResults).stats

BothPresent(item) == IsSome(item.beforeValue) /\ IsSome(item.afterValue)

Magnitude(item) == Abs(Val(item.afterValue) - Val(item.beforeValue))

NumberWithStatus(items, status) ==
  Len(SelectSeq(items, LAMBDA item : item.status = status))

\* C1: in every state that holds a result, each item has exactly one of the
\* four statuses and it is the one its values and the current tolerance give:
\* match iff both present and |after - before| <= tolerance, different iff
\* both present and |after - before| > tolerance, only-before iff only the
\* before value is present, only-after iff only the after value is present.
C1_StatusAgrees ==
  HasResult =>
    \A i \in 1..Len(Items) :
      LET item == Items[i] IN
      /\ item.status \in { "match", "different", "only-before", "only-after" }
      /\ IsSome(item.beforeValue) \/ IsSome(item.afterValue)
      /\ item.status = "match" <=>
           (BothPresent(item) /\ Magnitude(item) <= discrepancyUnits)
      /\ item.status = "different" <=>
           (BothPresent(item) /\ Magnitude(item) > discrepancyUnits)
      /\ item.status = "only-before" <=>
           (IsSome(item.beforeValue) /\ IsNone(item.afterValue))
      /\ item.status = "only-after" <=>
           (IsNone(item.beforeValue) /\ IsSome(item.afterValue))

\* a result whose tolerance was moved to 4 and that has an item of each kind:
\* one at the boundary distance 5 (now different), one only in the first font
C1_Witness ==
  /\ HasResult
  /\ discrepancyUnits = 4
  /\ \E i \in 1..Len(Items) :
       BothPresent(Items[i]) /\ Magnitude(Items[i]) = 5 /\ Items[i].status = "different"
  /\ \E i \in 1..Len(Items) : Items[i].status = "only-before"

\* the tuple an item of the union is identified by
ItemOfKey(pairKey) ==
  << SplitLeft(pairKey), SplitRight(pairKey),
     Lookup(resultFirstPairs, pairKey), Lookup(resultSecondPairs, pairKey) >>

TupleOfItem(item) == << item.left, item.right, item.beforeValue, item.afterValue >>

UnionKeys == DOMAIN resultFirstPairs \cup DOMAIN resultSecondPairs

\* C2: the item list has exactly as many items as the union of the keys of
\* the two filtered mappings, and every key of either mapping has exactly one
\* item, carrying the first mapping's value as beforeValue and the second's
\* as afterValue (null where the key is absent).
C2_UnionComplete ==
  HasResult =>
    /\ Len(Items) = Cardinality(UnionKeys)
    /\ \A k \in UnionKeys :
         Cardinality({ i \in 1..Len(Items) : TupleOfItem(Items[i]) = ItemOfKey(k) })
           = Cardinality({ k2 \in UnionKeys : ItemOfKey(k2) = ItemOfKey(k) })
    /\ \A i \in 1..Len(Items) :
         \E k \in UnionKeys : TupleOfItem(Items[i]) = ItemOfKey(k)

\* a result over two mappings that share a key and each have a key of their own
C2_Witness ==
  /\ HasResult
  /\ DOMAIN resultFirstPairs \cap DOMAIN resultSecondPairs # { }
  /\ DOMAIN resultFirstPairs \ DOMAIN resultSecondPairs # { }
  /\ DOMAIN resultSecondPairs \ DOMAIN resultFirstPairs # { }
  /\ Len(Items) = 4

\* C3: in every state that holds a result the counts agree with the items:
\* each status count is the number of items with that status, they sum to
\* totalPairs, which is the number of items; beforeTotal is the size of the
\* first filtered mapping (match + different + only-before) and afterTotal
\* that of the second (match + different + only-after).
C3_CountsAgree ==
  HasResult =>
    /\ Stats.matchCount = NumberWithStatus(Items, "match")
    /\ Stats.differenceCount = NumberWithStatus(Items, "different")
    /\ Stats.onlyInBeforeCount = NumberWithStatus(Items, "only-before")
    /\ Stats.onlyInAfterCount = NumberWithStatus(Items, "only-after")
    /\ Stats.totalPairs = Len(Items)
    /\ Stats.totalPairs = Stats.matchCount + Stats.differenceCount
                            + Stats.onlyInBeforeCount + Stats.onlyInAfterCount
    /\ Stats.beforeTotal = Cardinality(DOMAIN resultFirstPairs)
    /\ Stats.beforeTotal = Stats.matchCount + Stats.differenceCount
                             + Stats.onlyInBeforeCount
    /\ Stats.afterTotal = Cardinality(DOMAIN resultSecondPairs)
    /\ Stats.afterTotal = Stats.matchCount + Stats.differenceCount
                            + Stats.onlyInAfterCount

\* a result lowered to tolerance 4, where the item at distance 5 has become
\* the second different one, with items in one font only and per-font totals
\* smaller than the union
C3_Witness ==
  /\ HasResult
  /\ discrepancyUnits = 4
  /\ Stats.matchCount = 0 /\ Stats.differenceCount = 2
  /\ Stats.onlyInBeforeCount > 0 /\ Stats.onlyInAfterCount > 0
  /\ Stats.afterTotal < Stats.totalPairs

StatusRank(status) ==
  CASE status = "different"   -> 1
    [] status = "only-before" -> 2
    [] status = "only-after"  -> 3
    [] status = "match"       -> 4

\* the order of section 4.3 on a list of items
InSortOrder(items) ==
  \A i, j \in 1..Len(items) :
    i < j =>
      /\ StatusRank(items[i].status) <= StatusRank(items[j].status)
      /\ (items[i].status = "different" /\ items[j].status = "different")
           => Abs(items[i].difference) >= Abs(items[j].difference)
      /\ (items[i].status = items[j].status /\ items[i].status # "different")
           => localeCompare(items[i].left, items[j].left) <= 0

\* different before the other statuses, and different by descending magnitude
DifferentFirstDescending(items) ==
  \A i, j \in 1..Len(items) :
    i < j =>
      /\ items[j].status = "different" => items[i].status = "different"
      /\ (items[i].status = "different" /\ items[j].status = "different")
           => Abs(items[i].difference) >= Abs(items[j].difference)

\* a run of the compare handler (the frame is tested first: it is cheap)
CompareStep ==
  /\ UNCHANGED << fontFirst, fontSecond, discrepancyUnits, dictionary, activeFilter >>
  /\ compareKerningTables

\* C4: the item list a comparison run stores is sorted: different, then
\* only-before, then only-after, then match; different items by
\* non-increasing absolute difference; items of any other status by
\* non-decreasing left character.
C4_SortedAfterCompare ==
  [][ (CompareStep /\ error' = None)
        => InSortOrder(Val(comparisonResults').comparisons) ]_vars

\* a result at the initial tolerance with two different items of distinct
\* magnitude and an item of another status
C4_Witness ==
  /\ HasResult
  /\ error = None
  /\ InSortOrder(Items)
  /\ \E i, j \in 1..Len(Items) :
       /\ Items[i].status = "different" /\ Items[j].status = "different"
       /\ Abs(Items[i].difference) > Abs(Items[j].difference)
  /\ \E i \in 1..Len(Items) : Items[i].status = "only-before"

\* C5: the item list is in the sort order in every state that holds a
\* result, also after tolerance changes: different items precede the items
\* of the other statuses and are in descending order of absolute difference.
C5_SortedAlways ==
  HasResult => DifferentFirstDescending(Items)

\* a tolerance change on a held result
ToleranceStep == discrepancyUnits' # discrepancyUnits /\ HasResult

\* C6: when the tolerance of a held result is raised no item goes from match
\* to different and matchCount does not decrease; when it is lowered no item
\* goes from different to match; in both cases only-before and only-after
\* items keep their status and their two counts are unchanged.
C6_ToleranceMonotone ==
  [][ ToleranceStep =>
        LET old == Val(comparisonResults)
            new == Val(comparisonResults')
            raised == discrepancyUnits' > discrepancyUnits
        IN  /\ Len(new.comparisons) = Len(old.comparisons)
            /\ \A i \in 1..Len(old.comparisons) :
                 LET before == old.comparisons[i].status
                     after == new.comparisons[i].status
                 IN  /\ (raised /\ before = "match") => after = "match"
                     /\ (~raised /\ before = "different") => after = "different"
                     /\ before \in { "only-before", "only-after" } => after = before
                     /\ after \in { "only-before", "only-after" } => after = before
            /\ raised => new.stats.matchCount >= old.stats.matchCount
            /\ ~raised => new.stats.differenceCount >= old.stats.differenceCount
            /\ new.stats.onlyInBeforeCount = old.stats.onlyInBeforeCount
            /\ new.stats.onlyInAfterCount = old.stats.onlyInAfterCount ]_vars

\* a result raised to tolerance 30 in which an item at distance 30 has become
\* a match, beside an item present in one font only
C6_Witness ==
  /\ HasResult
  /\ discrepancyUnits = 30
  /\ \E i \in 1..Len(Items) :
       BothPresent(Items[i]) /\ Magnitude(Items[i]) = 30 /\ Items[i].status = "match"
  /\ Stats.onlyInBeforeCount + Stats.onlyInAfterCount > 0

\* C7: a tolerance change never fails and keeps the key set: the number of
\* items and each item's left, right, pair, beforeValue and afterValue are
\* unchanged, as are totalPairs, the only-in counts, the per-font totals, the
\* spacing candidates and the scope; only the status of items present in both
\* fonts, matchCount and differenceCount may change.
C7_ReclassifyFrame ==
  [][ ToleranceStep =>
        /\ IsSome(comparisonResults')
        /\ error' = error
        /\ LET old == Val(comparisonResults)
               new == Val(comparisonResults')
           IN  /\ Len(new.comparisons) = Len(old.comparisons)
               /\ \A i \in 1..Len(old.comparisons) :
                    LET a == old.comparisons[i]
                        b == new.comparisons[i]
                    IN  /\ b.left = a.left /\ b.right = a.right /\ b.pair = a.pair
                        /\ b.beforeValue = a.beforeValue
                        /\ b.afterValue = a.afterValue
                        /\ b.status # a.status => BothPresent(a)
               /\ new.stats.totalPairs = old.stats.totalPairs
               /\ new.stats.onlyInBeforeCount = old.stats.onlyInBeforeCount
               /\ new.stats.onlyInAfterCount = old.stats.onlyInAfterCount
               /\ new.stats.beforeTotal = old.stats.beforeTotal
               /\ new.stats.afterTotal = old.stats.afterTotal
               /\ new.spacingCandidates = old.spacingCandidates
               /\ new.kerningScope = old.kerningScope ]_vars

\* a result lowered to tolerance 4 with an only-before item, spacing
\* candidates and a scope that covers digits
C7_Witness ==
  /\ HasResult
  /\ discrepancyUnits = 4
  /\ Stats.differenceCount = 2
  /\ Stats.onlyInBeforeCount = 1
  /\ Len(Val(comparisonResults).spacingCandidates.before.left) = 3
  /\ Val(comparisonResults).kerningScope.before.numbers

\* C8: a result that went through tolerance changes has the same set of
\* items (left, right, pair, values, difference, status) and the same counts
\* as a fresh comparison of the same two filtered mappings at the current
\* tolerance.
C8_ReclassifyAgreesWithCompare ==
  HasResult =>
    LET fresh == ComparisonResult(resultFirstPairs, resultSecondPairs, discrepancyUnits)
    IN  /\ Len(Items) = Len(fresh.comparisons)
        /\ Range(Items) = Range(fresh.comparisons)
        /\ Stats = fresh.stats

\* a result moved away from the initial tolerance in which the order of the
\* list is no longer the one a fresh comparison gives
C8_Witness ==
  /\ HasResult
  /\ discrepancyUnits # InitialDiscrepancyUnits
  /\ Stats.differenceCount > 0
  /\ Items # ComparisonResult(resultFirstPairs, resultSecondPairs,
                              discrepancyUnits).comparisons

\* C9: an item's difference is afterValue - beforeValue (signed) when both
\* values are present and 0 otherwise, whatever the tolerance.
C9_DifferenceSigned ==
  HasResult =>
    \A i \in 1..Len(Items) :
      Items[i].difference =
        IF BothPresent(Items[i])
        THEN Val(Items[i].afterValue) - Val(Items[i].beforeValue)
        ELSE 0

\* a result away from the initial tolerance with a negative difference and an
\* item present in one font only
C9_Witness ==
  /\ HasResult
  /\ discrepancyUnits # InitialDiscrepancyUnits
  /\ \E i \in 1..Len(Items) : BothPresent(Items[i]) /\ Items[i].difference < 0
  /\ \E i \in 1..Len(Items) : ~BothPresent(Items[i]) /\ Items[i].difference = 0

\* C10: a comparison whose two mappings are both empty ends in an error and
\* stores no result: with both unfiltered mappings empty the error is the
\* no-pairs-in-either-font message; with both empty only after filtering the
\* error names the selected dictionary; the held result is left as it was
\* and the analyzing flag is false afterwards.
C10_EmptyComparisonFails ==
  [][ CompareStep =>
        LET firstPairs == Val(fontFirst)
            secondPairs == Val(fontSecond)
            unfilteredEmpty == DOMAIN firstPairs = { } /\ DOMAIN secondPairs = { }
            filteredEmpty ==
              /\ DOMAIN filterPairsByDictionary(firstPairs, dictionary) = { }
              /\ DOMAIN filterPairsByDictionary(secondPairs, dictionary) = { }
        IN  /\ isAnalyzing' = FALSE
            /\ (unfilteredEmpty \/ filteredEmpty) =>
                 /\ IsSome(error')
                 /\ comparisonResults' = comparisonResults
                 /\ unfilteredEmpty => error' = Some(NoPairsError)
                 /\ ~unfilteredEmpty =>
                      /\ error' # Some(NoPairsError)
                      /\ DICTIONARY_OPTIONS[dictionary] \in Range(Val(error'))
            /\ ~(unfilteredEmpty \/ filteredEmpty) => IsNone(error') ]_vars

\* a held result that survived a comparison which the Numbers dictionary
\* emptied
C10_Witness ==
  /\ HasResult
  /\ dictionary = "numbers"
  /\ IsSome(error)
  /\ "Numbers" \in Range(Val(error))
  /\ ~isAnalyzing

\* ------------------------------------------- claims: the dictionary filter
\* the characters the extractor put into a key
KeyLeft(pairKey) == pairKey[1]

KeyRight(pairKey) == pairKey[3]

\* the entries of a mapping whose two characters are both in a character set
SubMapping(kerningPairs, charSet) ==
  [ pairKey \in { k \in DOMAIN kerningPairs :
                    KeyLeft(k) \in charSet /\ KeyRight(k) \in charSet } |->
      kerningPairs[pairKey] ]

\* the input of the n-th call of the filter
FilterInput(n) == IF n = 1 THEN filterArg ELSE filterReturn[n - 1].value

\* C11: for a mapping over the candidate characters and a dictionary with a
\* non-empty character set, the filter returns exactly the entries whose left
\* and right characters are both in the set, with their values.
C11_FilterKeepsMembers ==
  \A n \in 1..Len(filterReturn) :
    (filterId \in DOMAIN DICTIONARIES /\ DICTIONARIES[filterId] # { })
      => filterReturn[n] =
           Returned(SubMapping(FilterInput(n), DICTIONARIES[filterId]))

\* C13: for a dictionary whose character set is empty (all-pairs, custom with
\* no text) the filter returns a mapping with the keys and values of its input.
C13_EmptySetNoOp ==
  \A n \in 1..Len(filterReturn) :
    (filterId \in DOMAIN DICTIONARIES /\ DICTIONARIES[filterId] = { })
      => filterReturn[n] = Returned(FilterInput(n))

C13_Witness ==
  /\ Len(filterReturn) = 1
  /\ filterId \in { "all-pairs", "custom" }
  /\ customCharacters = << >>
  /\ Cardinality(DOMAIN filterArg) = 2
  /\ PairKey("V", ",") \in DOMAIN filterReturn[1].value

\* C14: filtering what the filter returned, by the same dictionary, returns
\* the same keys and values again.
C14_FilterIdempotent ==
  Len(filterReturn) = 2 => filterReturn[2] = filterReturn[1]

C14_Witness ==
  /\ Len(filterReturn) = 2
  /\ filterId = "latin-punctuation"
  /\ DOMAIN filterArg = { PairKey("A", "V"), PairKey("1", "V") }
  /\ DOMAIN filterReturn[2].value = { PairKey("A", "V") }

\* C15: for an id that names no profile the filter does not fail and returns
\* what filtering by latin-normal returns.
C15_UnknownIdFallsBack ==
  (Len(filterReturn) >= 1 /\ filterId \notin DOMAIN DICTIONARIES)
    => filterReturn[1] =
         Returned(filterPairsByDictionary(filterArg, "latin-normal"))

\* ------------------------------------------- claims: the custom dictionary
\* C12: a comparison run with the custom dictionary selected and a non-empty
\* custom text holds only pairs whose left and right characters are both in
\* the text.
C12_CustomTextFilters ==
  [][ ( /\ CompareStep
        /\ dictionary = "custom"
        /\ customDictionary # << >>
        /\ IsNone(error') )
      => \A i \in 1..Len(Val(comparisonResults').comparisons) :
           LET item == Val(comparisonResults').comparisons[i] IN
           /\ Has(CharSet(customDictionary), item.left)
           /\ Has(CharSet(customDictionary), item.right) ]_vars

\* ------------------------------------ claims: the extractor and the loader
HasBothLookups(f) == f.hasCharToGlyph /\ f.hasGetKerningValue

\* the candidate pairs both of whose glyph lookups and whose kerning lookup
\* succeed with a non-zero value, each with that value
NonZeroCandidatePairs(f) ==
  [ pairKey \in { PairKey(l, r) : << l, r >> \in
                    { p \in CandidateChars \X CandidateChars :
                        /\ ~LookupThrows(f, p[1], p[2])
                        /\ getKerningValue(f, p[1], p[2]) # 0 } } |->
      getKerningValue(f, KeyLeft(pairKey), KeyRight(pairKey)) ]

\* C16: for a font with both lookups the extractor returns exactly the
\* candidate pairs whose lookups succeed with a non-zero value, each mapped to
\* that value: no zero is stored, no key is off the candidate set, none is
\* missing.
C16_ExtractsNonZeroPairs ==
  (IsSome(extractReturn) /\ HasBothLookups(font))
    => /\ Val(extractReturn) = Returned(NonZeroCandidatePairs(font))
       /\ \A pairKey \in DOMAIN Val(extractReturn).value :
            /\ Val(extractReturn).value[pairKey] # 0
            /\ pairKey \in CandidateKeys

C16_Witness ==
  /\ IsSome(extractReturn)
  /\ HasBothLookups(font)
  /\ font.throwingChars = { } /\ font.throwingPairs = { }
  /\ PairKey("A", "W") \in DOMAIN font.kern
  /\ DOMAIN Val(extractReturn).value = { PairKey("A", "V"), PairKey("V", ",") }

\* the same font with no throwing lookup
WithoutThrowing(f) == [ f EXCEPT !.throwingChars = { }, !.throwingPairs = { } ]

\* C17: a lookup that throws for a candidate pair costs that pair only: the
\* extractor returns, and what it returns is what it returns for the font
\* without the failure, less the pairs whose lookup throws.
C17_FailureSkipsOnePair ==
  (IsSome(extractReturn) /\ HasBothLookups(font))
    => LET clean == extractKerningPairs(WithoutThrowing(font)) IN
       /\ Val(extractReturn).type = "return"
       /\ Val(extractReturn).value =
            [ pairKey \in { k \in DOMAIN clean :
                              ~LookupThrows(font, KeyLeft(k), KeyRight(k)) } |->
                clean[pairKey] ]

C17_Witness ==
  /\ IsSome(extractReturn)
  /\ HasBothLookups(font)
  /\ font.throwingPairs = { << "V", "A" >> }
  /\ font.throwingChars = { }
  /\ PairKey("V", "A") \in DOMAIN font.kern
  /\ DOMAIN Val(extractReturn).value = { PairKey("A", "V"), PairKey("1", "1") }

\* C18: extraction from a font object that lacks one of the two lookups
\* throws; it does not return an empty mapping.
C18_UnsupportedFontThrows ==
  (IsSome(extractReturn) /\ ~HasBothLookups(font))
    => Val(extractReturn).type = "throw"

\* C19: when extraction finds no non-zero pair, the loader returns an empty
\* kerning mapping, never measured or synthetic values.
C19_LoaderKeepsToTables ==
  ( /\ IsSome(loadReturn)
    /\ Val(loadReturn).type = "return"
    /\ DOMAIN extractKerningPairs(font) = { } )
    => DOMAIN Val(loadReturn).value.kerningPairs = { }

\* ------------------------------------------------ claims: repeated compare
\* the place of an item's key in the enumeration compare builds the list from
EnumerationIndex(item, keys) ==
  CHOOSE n \in 1..Len(keys) : keys[n] = item.left \o << "," >> \o item.right

\* items the comparator treats as equal are in the order of the enumeration
TiesInEnumerationOrder(items, keys) ==
  \A i, j \in 1..Len(items) :
    (i < j /\ CompareItems(items[i], items[j]) = 0)
      => EnumerationIndex(items[i], keys) < EnumerationIndex(items[j], keys)

InsightCalled(call) == IsSome(insightReturn) /\ Val(insightReturn).call = call

\* the kerning of the font a call was about
InsightFont ==
  IF Val(insightReturn).fontKey = "before" THEN resultFirstPairs
  ELSE resultSecondPairs

\* the ordered pairs of characters that are kerned in both orders, the two
\* values more than 10 units apart
AsymmetricIn(kerningPairs) ==
  { p \in CandidateChars \X CandidateChars :
      /\ PairKey(p[1], p[2]) \in DOMAIN kerningPairs
      /\ PairKey(p[2], p[1]) \in DOMAIN kerningPairs
      /\ Abs(kerningPairs[PairKey(p[1], p[2])]
               - kerningPairs[PairKey(p[2], p[1])]) > 10 }

Asymmetry(kerningPairs, p) ==
  Abs(kerningPairs[PairKey(p[1], p[2])] - kerningPairs[PairKey(p[2], p[1])])

\* C21: asymmetry detection reports a pair (L, R) only if (R, L) is kerned
\* too and the two values differ by more than 10 units, each entry with that
\* difference; it returns at most 5 entries, in non-increasing order of
\* difference, and they are the pairs with the largest differences
C21_AsymmetryReport ==
  InsightCalled("getAsymmetricPairs") =>
    LET out == Val(insightReturn).value
        asymmetric == AsymmetricIn(InsightFont)
    IN  /\ \A i \in 1..Len(out) :
              \E p \in asymmetric :
                /\ out[i].pair = << p[1], p[2] >>
                /\ out[i].difference = Asymmetry(InsightFont, p)
        /\ Len(out) <= 5
        /\ \A i \in 1..(Len(out) - 1) : out[i].difference >= out[i + 1].difference
        /\ \A i, j \in 1..Len(out) : out[i].pair = out[j].pair => i = j
        /\ Len(out) = IF Cardinality(asymmetric) < 5
                      THEN Cardinality(asymmetric) ELSE 5
        /\ \A p \in asymmetric :
              \/ \E i \in 1..Len(out) : out[i].pair = << p[1], p[2] >>
              \/ \A i \in 1..Len(out) :
                    out[i].difference >= Asymmetry(InsightFont, p)

\* the present values of a font, one for each of its pairs
ValuesOf(kerningPairs) ==
  LET keys == ObjectKeys(kerningPairs)
  IN  [ i \in 1..Len(keys) |-> kerningPairs[keys[i]] ]

\* value > m + 2s, m the mean and s the population standard deviation of
\* the values: n * value - S > 0 and (n * value - S)^2 > 4 * (n * Q - S^2)
StrictlyAbove(value, values) ==
  LET d == Len(values) * value - SumSeq(values)
  IN  d > 0 /\ d * d > 4 * ScaledVariance(values)

\* value < m - 2s
StrictlyBelow(value, values) ==
  LET d == Len(values) * value - SumSeq(values)
  IN  d < 0 /\ d * d > 4 * ScaledVariance(values)

Occurrences(seq, x) == Cardinality({ i \in 1..Len(seq) : seq[i] = x })

\* C22: the positive outlier list holds only values strictly above m + 2s,
\* the negative list only values strictly below m - 2s; a list has at most
\* 5 entries, the most extreme ones, ordered from most to least extreme;
\* both lists are empty for a font with no value or with all values equal
C22_OutlierReport ==
  InsightCalled("getOutliers") =>
    LET out == Val(insightReturn).value
        positive == Val(insightReturn).type = "positive"
        values == ValuesOf(InsightFont)
        outlier(v) == IF positive THEN StrictlyAbove(v, values)
                      ELSE StrictlyBelow(v, values)
        beyond(v, w) == IF positive THEN v > w ELSE v < w
        outliers == SelectSeq(values, outlier)
        reported == [ i \in 1..Len(out) |-> out[i].value ]
    IN  /\ \A i \in 1..Len(out) : outlier(out[i].value)
        /\ Len(out) <= 5
        /\ \A i \in 1..(Len(out) - 1) : ~beyond(out[i + 1].value, out[i].value)
        /\ Len(out) = IF Len(outliers) < 5 THEN Len(outliers) ELSE 5
        /\ \A i \in 1..Len(outliers) :
              \/ Occurrences(reported, outliers[i]) = Occurrences(outliers, outliers[i])
              \/ \A j \in 1..Len(out) : ~beyond(outliers[i], out[j].value)
        /\ (\A i, j \in 1..Len(values) : values[i] = values[j]) => out = << >>

\* the keys of a font whose left character is the given one, in order
KeysWithLeft(kerningPairs, leftChar) ==
  SelectSeq(ObjectKeys(kerningPairs), LAMBDA k : k[1] = leftChar)

GroupValues(kerningPairs, leftChar) ==
  LET keys == KeysWithLeft(kerningPairs, leftChar)
  IN  [ i \in 1..Len(keys) |-> kerningPairs[keys[i]] ]

\* a left character with at least 3 pairs whose values have a population
\* variance above 100
Inconsistent(kerningPairs, leftChar) ==
  LET values == GroupValues(kerningPairs, leftChar)
  IN  Len(values) >= 3 /\ ScaledVariance(values) > 100 * Len(values) * Len(values)

\* the variance of the first character's group is at least that of the
\* second's
VarianceAtLeast(kerningPairs, a, b) ==
  LET va == GroupValues(kerningPairs, a)
      vb == GroupValues(kerningPairs, b)
  IN  ScaledVariance(va) * Len(vb) * Len(vb) >= ScaledVariance(vb) * Len(va) * Len(va)

\* C23: the pattern check groups the pairs of a font by their left
\* character and reports a group only if it has at least 3 members and a
\* population variance strictly above 100; it returns at most 3 groups, the
\* ones with the largest variance in non-increasing order, each with all
\* its member pairs
C23_PatternReport ==
  InsightCalled("getInconsistentPatterns") =>
    LET out == Val(insightReturn).value
        inconsistent == { c \in CandidateChars : Inconsistent(InsightFont, c) }
        IsGroupOf(g, c) ==
          /\ g.left = << c >>
          /\ Len(g.pairs) = Len(KeysWithLeft(InsightFont, c))
          /\ { << g.pairs[i].pair, g.pairs[i].value >> : i \in 1..Len(g.pairs) }
               = { << << k[1], k[3] >>, InsightFont[k] >> :
                     k \in Range(KeysWithLeft(InsightFont, c)) }
    IN  /\ Len(out) = IF Cardinality(inconsistent) < 3
                      THEN Cardinality(inconsistent) ELSE 3
        /\ \E chosen \in [ 1..Len(out) -> inconsistent ] :
              /\ \A i \in 1..Len(out) : IsGroupOf(out[i], chosen[i])
              /\ \A i, j \in 1..Len(out) : chosen[i] = chosen[j] => i = j
              /\ \A i \in 1..(Len(out) - 1) :
                    VarianceAtLeast(InsightFont, chosen[i], chosen[i + 1])
              /\ \A c \in inconsistent :
                    \/ \E i \in 1..Len(out) : chosen[i] = c
                    \/ \A i \in 1..Len(out) :
                          VarianceAtLeast(InsightFont, chosen[i], c)

\* the spacing candidates of a font as the claim describes them: on each
\* side the characters on that side of at least 5% of the N pairs, each with
\* its number of pairs, in non-increasing order of that number
CandidatesOfSide(list, kerningPairs, side) ==
  LET N == Cardinality(DOMAIN kerningPairs)
      count(c) == Cardinality({ k \in DOMAIN kerningPairs : k[side] = c })
  IN  /\ \A c \in CandidateChars :
            count(c) > 0 =>
              ((\E i \in 1..Len(list) : list[i].char = << c >>) <=> 20 * count(c) >= N)
      /\ \A i \in 1..Len(list) :
            \E c \in CandidateChars :
              list[i].char = << c >> /\ list[i].count = count(c)
      /\ \A i, j \in 1..Len(list) : list[i].char = list[j].char => i = j
      /\ \A i \in 1..(Len(list) - 1) : list[i].count >= list[i + 1].count

\* C24: in the spacing candidates of a font with N pairs a character is in
\* the left list iff it is the left character of at least 5% of the pairs,
\* in the right list iff it is the right character of at least 5% of them,
\* each entry carries that count, and each list is in non-increasing order
\* of count
C24_SpacingCandidates ==
  HasResult =>
    /\ CandidatesOfSide(Val(comparisonResults).spacingCandidates.before.left,
                        resultFirstPairs, 1)
    /\ CandidatesOfSide(Val(comparisonResults).spacingCandidates.before.right,
                        resultFirstPairs, 3)
    /\ CandidatesOfSide(Val(comparisonResults).spacingCandidates.after.left,
                        resultSecondPairs, 1)
    /\ CandidatesOfSide(Val(comparisonResults).spacingCandidates.after.right,
                        resultSecondPairs, 3)

\* the characters taking part in at least one pair of a font
CharactersOf(kerningPairs) ==
  { k[1] : k \in DOMAIN kerningPairs } \cup { k[3] : k \in DOMAIN kerningPairs }

\* the scope of a font as the claim describes it: a class flag is true iff
\* a character of the class takes part in a pair
ScopeAsClaimed(scope, kerningPairs) ==
  LET chars == CharactersOf(kerningPairs) IN
  /\ scope.uppercase <=> (chars \cap latinUppercase # { })
  /\ scope.lowercase <=> (chars \cap latinLowercase # { })
  /\ scope.numbers <=> (chars \cap numbers # { })
  /\ scope.punctuation <=> (chars \cap punctuationPattern # { })
  /\ scope.accented <=> (chars \ Ascii # { })
  /\ scope.nonLatin <=> (chars \ Ascii # { })

\* C25: scope detection sets each of the six class flags to true iff at
\* least one character taking part in at least one pair of the font belongs
\* to the class; on a font without pairs all six are false
C25_ScopeFlags ==
  HasResult =>
    /\ ScopeAsClaimed(Val(comparisonResults).kerningScope.before, resultFirstPairs)
    /\ ScopeAsClaimed(Val(comparisonResults).kerningScope.after, resultSecondPairs)

\* ---- the extractor's loop
LoopReturned == loop.i = Len(allCharacters) /\ IsSome(extractReturn)

\* C26: the extractor's candidate character set has 86 distinct characters,
\* one extraction examines 7,396 ordered pairs and the mapping it returns
\* has at most 7,396 entries
C26_EightySixCharacters ==
  LoopReturned =>
    /\ Cardinality(Range(allCharacters)) = 86
    /\ loop.examined = 7396
    /\ Cardinality(DOMAIN Val(extractReturn).value) <= 7396

\* C26 as the code has it: 81 distinct characters, 6,561 ordered pairs
\* examined by one extraction, at most 6,561 entries in the mapping it
\* returns
C26_EightyOneCharacters ==
  LoopReturned =>
    /\ Cardinality(Range(allCharacters)) = 81
    /\ loop.examined = 6561
    /\ Cardinality(DOMAIN Val(extractReturn).value) <= 6561

\* an extraction that returned 6,561 entries
C26_Witness ==
  LoopReturned /\ Cardinality(DOMAIN Val(extractReturn).value) = 6561

\* ---- the dictionary selection
\* the items and counts held are those of the two mappings
ResultIsOf(firstPairs, secondPairs) ==
  LET keys == DOMAIN firstPairs \cup DOMAIN secondPairs IN
  /\ { << Items[i].left, Items[i].right, Items[i].beforeValue, Items[i].afterValue >> :
        i \in 1..Len(Items) }
       = { << << k[1] >>, << k[3] >>, Lookup(firstPairs, k), Lookup(secondPairs, k) >> :
             k \in keys }
  /\ Len(Items) = Cardinality(keys)
  /\ Stats.totalPairs = Cardinality(keys)
  /\ Stats.beforeTotal = Cardinality(DOMAIN firstPairs)
  /\ Stats.afterTotal = Cardinality(DOMAIN secondPairs)
  /\ Stats.onlyInBeforeCount = Cardinality(DOMAIN firstPairs \ DOMAIN secondPairs)
  /\ Stats.onlyInAfterCount = Cardinality(DOMAIN secondPairs \ DOMAIN firstPairs)

\* C27: dictionary selection is fed back into the differ: after a selection
\* made while a result is held, the items and counts held are those of the
\* two loaded fonts' mappings filtered by the dictionary now selected
C27_DictionaryFedBack ==
  [][ (dictionary' # dictionary /\ IsSome(comparisonResults')) =>
        (ResultIsOf(filterPairsByDictionary(Val(fontFirst), dictionary),
                    filterPairsByDictionary(Val(fontSecond), dictionary)))' ]_vars

\* ---- the overlay tab
\* C28: whenever the overlay tab displays a pair, the index it reads the
\* filtered list at is within the list, 0 <= currentPairIndex < length,
\* whatever navigation, status filter, search term, tolerance and new
\* comparisons came before: the view never reads past the end
C28_IndexInRange ==
  (IsSome(overlayView) /\ IsSome(Val(overlayView).read)) =>
    /\ 0 <= Val(Val(overlayView).read)
    /\ Val(Val(overlayView).read) < Val(overlayView).length

\* C29: after any dictionary selection or edit of the custom text, every
\* profile other than custom has the character set the module text gives it,
\* and a step that changes the custom profile's characters is taken with the
\* custom dictionary selected and leaves them equal to the text entered.
C29_OnlyCustomWritten ==
  [][ /\ \A id \in DOMAIN ProfileSets \ { "custom" } :
           DICTIONARIES'[id] = ProfileSets[id]
      /\ (customCharacters' # customCharacters)
           => (dictionary' = "custom" /\ customCharacters' = customDictionary') ]_vars

C29_Witness ==
  /\ dictionary = "numbers"
  /\ customDictionary = << "A", "V" >>
  /\ customCharacters = << "A", "V" >>
  /\ DICTIONARIES["numbers"] = ProfileSets["numbers"]

\* the key an item's left and right join to
JoinedKey(item) == item.left \o << "," >> \o item.right

\* C30: in every result, each item's left and right are one character each and
\* joined as left + ',' + right they give a key of the compared mappings;
\* every key of the mappings is given back by some item, and no two items
\* have the same (left, right).
C30_ItemsIdentifyKeys ==
  HasResult =>
    /\ \A i \in 1..Len(Items) :
         /\ Len(Items[i].left) = 1
         /\ Len(Items[i].right) = 1
         /\ JoinedKey(Items[i]) \in UnionKeys
    /\ \A pairKey \in UnionKeys :
         \E i \in 1..Len(Items) : JoinedKey(Items[i]) = pairKey
    /\ \A i, j \in 1..Len(Items) :
         i # j => << Items[i].left, Items[i].right >> # << Items[j].left, Items[j].right >>

====
